---- MODULE Spec2Model ----
(***************************************************************************)
(* Dew-point controller (src/main.py): the control loop of                 *)
(* EnhancedTaupunktController, the AlarmController, the logger, the        *)
(* calibrator and the trend buffers it drives, and the wake-up button      *)
(* interrupt handler.                                                      *)
(*                                                                         *)
(* Temperatures, humidities and dew points are fixed-point integers in     *)
(* hundredths (20.0 degC = 2000, 50 %RH = 5000), which is also the         *)
(* resolution of round(dew_point, 2).  Time is in seconds (time.time()).   *)
(***************************************************************************)
EXTENDS Integers, Sequences, FiniteSets, TLC

VARIABLES
    pc,                 \* position of control_loop
    exc,                \* exception in flight / last caught by control_loop
    cycles,             \* number of loop iterations started
    cycle_ops,          \* operations executed so far in the current iteration
    time,               \* time.time()
    wdt_last_feed,      \* time of the last wdt.feed()
    system_status,      \* self.system_status
    sensors,            \* keys of self.sensors (sensors found by i2c.scan)
    calibrations,       \* self.calibrator.calibrations
    cal_file,           \* the file at self.calibrator.config_path
    sensor_data,        \* local sensor_data of the current iteration
    processed,          \* local processed_data
    trend_data,         \* local trend_data
    risk_data,          \* local risk_data
    buffers,            \* self.trend_analyzer.buffers
    leds,               \* self.leds: pin level of each LED
    led_risk,           \* risk level passed to the last _update_led_status
    display,            \* self.display: tft present, backlight, screen shown
    is_display_on,      \* self.is_display_on
    last_user_activity, \* self.last_user_activity
    alarm,              \* self.alarm (AlarmController) with its buzzer
    logger,             \* self.enhanced_logger
    sd,                 \* files on the SD card: name -> lines
    pattern,            \* alarm_pattern_task: position, last sleep in ms
    call                \* last direct call of a component: arguments, result

vars == <<pc, exc, cycles, cycle_ops, time, wdt_last_feed, system_status,
          sensors, calibrations, cal_file, sensor_data, processed,
          trend_data, risk_data, buffers, leds, led_risk, display, is_display_on,
          last_user_activity, alarm, logger, sd, pattern,
          call>>

-----------------------------------------------------------------------------
(* Bounds of the model *)

MaxCycles == 2

MaxTicks == 4

\* add_measurement calls on a TrendAnalyzer used directly
MaxAdds == 5

\* clock steps of a logger used directly
MaxLogTicks == 4

-----------------------------------------------------------------------------
(* Values *)

None == -100000

NaN == -200000

SensorNames == {"innen", "aussen"}

LedNames == {"rot", "gelb", "gruen"}

AlarmKinds == {"condensation", "sensor_failure", "generic"}

BootTime == 7200

BACKOFF_SEK == 10

DefaultParams ==
    [mess_intervall_sek  |-> 900,
     log_interval_sek    |-> 3600,
     max_log_file_mb     |-> 5,
     max_log_files       |-> 30,
     taupunkt_grenze_c   |-> 200,
     watchdog_timeout_ms |-> 8000,
     display_timeout_sek |-> 60]

params == DefaultParams

Max(a, b) == IF a >= b THEN a ELSE b

Min(a, b) == IF a <= b THEN a ELSE b

RECURSIVE SumSeq(_)
SumSeq(s) == IF s = <<>> THEN 0 ELSE Head(s) + SumSeq(Tail(s))

-----------------------------------------------------------------------------
(* TaupunktCalculator *)

\* The Magnus formula of calculate_dew_point,
\*   alpha = a*T/(b+T) + ln(h/100), Td = round(b*alpha/(a-alpha), 2),
\* with a = 17.27 and b = 237.7, evaluated at the readings the model draws
\* (hundredths in, hundredths out).
MagnusDewPoint(temp, humidity) ==
    CASE temp = 2000 /\ humidity = 5000 -> 925
      [] temp = 2000 /\ humidity = 6200 -> 1249
      [] temp = 1000 /\ humidity = 7000 -> 478
      [] temp = 1500 /\ humidity = 7000 -> 957

\* b + temp = 0 at -237.7 degC: the division raises ZeroDivisionError
MagnusSingular(temp) == temp = -23770

\* calculate_dew_point of src/main.py: the formula is inside
\* try/except (ValueError, ZeroDivisionError)
calculate_dew_point(temp, humidity) ==
    IF humidity <= 0 \/ humidity > 10000
    THEN NaN
    ELSE IF MagnusSingular(temp)
    THEN NaN
    ELSE MagnusDewPoint(temp, humidity)

\* calculate_dew_point of src/lib/core/calc.py, which selftest.py and the
\* tests use: the same formula without try/except.  The result is the
\* value returned, or the exception that leaves the function
calc_calculate_dew_point(temp, humidity) ==
    IF humidity <= 0 \/ humidity > 10000
    THEN [value |-> NaN, exception |-> "none"]
    ELSE IF MagnusSingular(temp)
    THEN [value |-> None, exception |-> "ZeroDivisionError"]
    ELSE [value |-> MagnusDewPoint(temp, humidity), exception |-> "none"]

isnan(x) == x = NaN

\* without the isnan test every comparison with NaN is false
evaluate_condensation_risk_no_nan_test(indoor_dp, outdoor_temp, threshold) ==
    IF isnan(indoor_dp) \/ isnan(outdoor_temp)
    THEN <<"critical", "KONDENSATION MOEGLICH!">>
    ELSE LET temp_diff == outdoor_temp - indoor_dp
         IN  IF temp_diff > threshold + 100
             THEN <<"ok", "Kein Kondensationsrisiko">>
             ELSE IF temp_diff > threshold
             THEN <<"warning", "Erhoehte Aufmerksamkeit">>
             ELSE IF temp_diff > 0
             THEN <<"critical", "Hohes Kondensationsrisiko!">>
             ELSE <<"critical", "KONDENSATION MOEGLICH!">>

\* (a difference of exactly threshold + 1.0 counts as ok)
evaluate_condensation_risk_inclusive(indoor_dp, outdoor_temp, threshold) ==
    IF isnan(indoor_dp) \/ isnan(outdoor_temp)
    THEN <<"unknown", "Sensor-Daten ungueltig">>
    ELSE LET temp_diff == outdoor_temp - indoor_dp
         IN  IF temp_diff >= threshold + 100
             THEN <<"ok", "Kein Kondensationsrisiko">>
             ELSE IF temp_diff > threshold
             THEN <<"warning", "Erhoehte Aufmerksamkeit">>
             ELSE IF temp_diff > 0
             THEN <<"critical", "Hohes Kondensationsrisiko!">>
             ELSE <<"critical", "KONDENSATION MOEGLICH!">>

evaluate_condensation_risk(indoor_dp, outdoor_temp, threshold) ==
    IF isnan(indoor_dp) \/ isnan(outdoor_temp)
    THEN <<"unknown", "Sensor-Daten ungueltig">>
    ELSE LET temp_diff == outdoor_temp - indoor_dp
         IN  IF temp_diff > threshold + 100
             THEN <<"ok", "Kein Kondensationsrisiko">>
             ELSE IF temp_diff > threshold
             THEN <<"warning", "Erhoehte Aufmerksamkeit">>
             ELSE IF temp_diff > 0
             THEN <<"critical", "Hohes Kondensationsrisiko!">>
             ELSE <<"critical", "KONDENSATION MOEGLICH!">>

-----------------------------------------------------------------------------
(* SensorCalibrator *)

CalibrationData(temp_offset, humidity_offset) ==
    [temp_offset |-> temp_offset, humidity_offset |-> humidity_offset]

DefaultCalibrations ==
    [s \in SensorNames |-> CalibrationData(0, 0)]

\* (the humidity is not clamped)
apply_calibration_unclamped(cals, sensor_name, temp, humidity) ==
    LET cal == IF sensor_name \in DOMAIN cals
               THEN cals[sensor_name]
               ELSE CalibrationData(0, 0)
    IN  <<temp + cal.temp_offset, humidity + cal.humidity_offset>>

apply_calibration(cals, sensor_name, temp, humidity) ==
    LET cal == IF sensor_name \in DOMAIN cals
               THEN cals[sensor_name]
               ELSE CalibrationData(0, 0)
    IN  <<temp + cal.temp_offset,
          Max(0, Min(10000, humidity + cal.humidity_offset))>>

\* JSON values: an object with its items, or a value of another type
NoItems == [k \in {} |-> 0]

JsonObject(items) == [type |-> "object", items |-> items]

JsonArray == [type |-> "array", items |-> NoItems]

JsonNumber == [type |-> "number", items |-> NoItems]

JsonNull == [type |-> "null", items |-> NoItems]

\* the file at config_path: absent, unreadable, text that is no JSON
\* document, or a JSON document
NoStore == [kind |-> "absent", value |-> JsonNull]

UnreadableStore == [kind |-> "unreadable", value |-> JsonNull]

TextStore == [kind |-> "text", value |-> JsonNull]

JsonStore(value) == [kind |-> "json", value |-> value]

NoCalibrations == [s \in {} |-> CalibrationData(0, 0)]

\* cal_data.get(key, 0.0)
get_offset(cal_data, key) ==
    IF key \in DOMAIN cal_data THEN cal_data[key] ELSE 0

\* _load_calibrations, called by __init__ on the empty table: open raises
\* OSError and json.load raises ValueError, which are caught; data.items()
\* on a document that is no object and cal_data.get on an entry that is no
\* object raise AttributeError, which is not
load_calibrations(store) ==
    IF store.kind # "json"
    THEN [calibrations |-> DefaultCalibrations, raised |-> FALSE]
    ELSE IF store.value.type # "object"
            \/ \E s \in DOMAIN store.value.items :
                  store.value.items[s].type # "object"
    THEN [calibrations |-> NoCalibrations, raised |-> TRUE]
    ELSE [calibrations |->
             [s \in DOMAIN store.value.items |->
                 CalibrationData(
                     get_offset(store.value.items[s].items, "temp_offset"),
                     get_offset(store.value.items[s].items,
                                "humidity_offset"))],
          raised |-> FALSE]

\* (the document is not written)
save_calibrations_nothing(cals, store, outcome) == store

\* save_calibrations: the whole table as one JSON document.  outcome is
\* what the storage does: "ok", "open_fails" (open(path, 'w') raises and
\* the file is as before) or "write_fails" (the file was truncated and the
\* document is incomplete); every exception is caught
save_calibrations(cals, store, outcome) ==
    CASE outcome = "ok" ->
            JsonStore(JsonObject(
                [s \in DOMAIN cals |->
                    JsonObject([k \in {"temp_offset", "humidity_offset"} |->
                                   cals[s][k]])]))
      [] outcome = "open_fails" -> store
      [] outcome = "write_fails" -> TextStore

\* (the table is put back when the save fails)
set_calibration_rollback(cals, store, sensor_name, temp_offset, humidity_offset, outcome) ==
    LET table == [s \in DOMAIN cals \cup {sensor_name} |->
                     IF s = sensor_name
                     THEN CalibrationData(temp_offset, humidity_offset)
                     ELSE cals[s]]
    IN  [calibrations |-> IF outcome = "ok" THEN table ELSE cals,
         store |-> save_calibrations(table, store, outcome)]

\* set_calibration: the entry in the table, then save_calibrations
set_calibration(cals, store, sensor_name, temp_offset, humidity_offset, outcome) ==
    LET table == [s \in DOMAIN cals \cup {sensor_name} |->
                     IF s = sensor_name
                     THEN CalibrationData(temp_offset, humidity_offset)
                     ELSE cals[s]]
    IN  [calibrations |-> table,
         store |-> save_calibrations(table, store, outcome)]

-----------------------------------------------------------------------------
(* RingBuffer and TrendAnalyzer *)

Horizons == {"5min", "15min", "1h"}

HorizonSeconds(h) ==
    CASE h = "5min" -> 300
      [] h = "15min" -> 900
      [] h = "1h" -> 3600

RingBuffer(size) == [size |-> size, data |-> <<>>]

\* (an append that never discards)
RingBuffer_add_unbounded(buf, value) ==
    [buf EXCEPT !.data = Append(@, value)]

RingBuffer_add(buf, value) ==
    [buf EXCEPT !.data = IF Len(@) >= buf.size
                         THEN Append(Tail(@), value)
                         ELSE Append(@, value)]

\* sum(data) / len(data), truncated to hundredths; 0.0 when empty
RingBuffer_average(buf) ==
    IF buf.data = <<>> THEN 0 ELSE SumSeq(buf.data) \div Len(buf.data)

RingBuffer_is_full(buf) == Len(buf.data) = buf.size

TrendAnalyzer(measurement_interval) ==
    [s \in SensorNames |->
        [h \in Horizons |->
            RingBuffer(Max(1, HorizonSeconds(h) \div measurement_interval))]]

\* (only the 5-minute window gets the value)
add_measurement_first_window(bufs, sensor_name, value) ==
    IF sensor_name \in DOMAIN bufs
    THEN [bufs EXCEPT ![sensor_name]["5min"] = RingBuffer_add(@, value)]
    ELSE bufs

add_measurement(bufs, sensor_name, value) ==
    IF sensor_name \in DOMAIN bufs
    THEN [bufs EXCEPT ![sensor_name] =
             [h \in DOMAIN @ |-> RingBuffer_add(@[h], value)]]
    ELSE bufs

TrendData(current, avg_5min, avg_15min, trend) ==
    [present |-> TRUE, current |-> current, avg_5min |-> avg_5min,
     avg_15min |-> avg_15min, trend |-> trend]

NoTrend ==
    [present |-> FALSE, current |-> None, avg_5min |-> None,
     avg_15min |-> None, trend |-> "None"]

\* (thresholds included in rising and falling)
get_trend_data_inclusive(bufs, sensor_name, current_value) ==
    IF sensor_name \notin DOMAIN bufs
    THEN TrendData(current_value, current_value, current_value, "stable")
    ELSE LET b5  == bufs[sensor_name]["5min"]
             b15 == bufs[sensor_name]["15min"]
             n   == Len(b5.data)
             sum == SumSeq(b5.data)
             trend == IF ~RingBuffer_is_full(b5) THEN "initializing"
                      ELSE IF current_value * n >= sum + 50 * n THEN "rising"
                      ELSE IF current_value * n <= sum - 50 * n THEN "falling"
                      ELSE "stable"
         IN  TrendData(current_value, RingBuffer_average(b5),
                       RingBuffer_average(b15), trend)

\* (an unknown name treated as a sensor without samples)
get_trend_data_unknown_empty(bufs, sensor_name, current_value) ==
    IF sensor_name \notin DOMAIN bufs
    THEN TrendData(current_value, 0, 0, "initializing")
    ELSE LET b5  == bufs[sensor_name]["5min"]
             b15 == bufs[sensor_name]["15min"]
             n   == Len(b5.data)
             sum == SumSeq(b5.data)
             trend == IF ~RingBuffer_is_full(b5) THEN "initializing"
                      ELSE IF current_value * n > sum + 50 * n THEN "rising"
                      ELSE IF current_value * n < sum - 50 * n THEN "falling"
                      ELSE "stable"
         IN  TrendData(current_value, RingBuffer_average(b5),
                       RingBuffer_average(b15), trend)

\* The comparisons current > avg + 0.5 and current < avg - 0.5 are made on the
\* exact mean: current * n against sum +/- 0.5 * n.
get_trend_data(bufs, sensor_name, current_value) ==
    IF sensor_name \notin DOMAIN bufs
    THEN TrendData(current_value, current_value, current_value, "stable")
    ELSE LET b5  == bufs[sensor_name]["5min"]
             b15 == bufs[sensor_name]["15min"]
             n   == Len(b5.data)
             sum == SumSeq(b5.data)
             trend == IF ~RingBuffer_is_full(b5) THEN "initializing"
                      ELSE IF current_value * n > sum + 50 * n THEN "rising"
                      ELSE IF current_value * n < sum - 50 * n THEN "falling"
                      ELSE "stable"
         IN  TrendData(current_value, RingBuffer_average(b5),
                       RingBuffer_average(b15), trend)

-----------------------------------------------------------------------------
(* AlarmController.  cmds is the number of buzzer commands (freq, duty_u16) *)
(* issued by the most recent call of trigger_alarm or stop_alarm.           *)

AlarmNone == "None"

AlarmController(has_buzzer) ==
    [buzzer           |-> has_buzzer,
     is_alarm_active  |-> FALSE,
     alarm_type       |-> AlarmNone,
     alarm_start_time |-> 0,
     buzzer_freq      |-> IF has_buzzer THEN 2000 ELSE 0,
     buzzer_duty      |-> 0,
     cmds             |-> 0]

play_condensation_alarm(a) ==
    IF a.buzzer
    THEN [a EXCEPT !.buzzer_freq = 1500, !.buzzer_duty = 32768, !.cmds = 2]
    ELSE a

play_sensor_failure_alarm(a) ==
    IF a.buzzer
    THEN [a EXCEPT !.buzzer_freq = 2500, !.buzzer_duty = 16384, !.cmds = 2]
    ELSE a

play_generic_alarm(a) ==
    IF a.buzzer
    THEN [a EXCEPT !.buzzer_freq = 2000, !.buzzer_duty = 32768, !.cmds = 2]
    ELSE a

trigger_alarm_no_dedup(a, alarm_type, now) ==
    LET b == [a EXCEPT !.is_alarm_active = TRUE,
                       !.alarm_type = alarm_type,
                       !.alarm_start_time = now,
                       !.cmds = 0]
    IN  IF alarm_type = "condensation" THEN play_condensation_alarm(b)
        ELSE IF alarm_type = "sensor_failure"
        THEN play_sensor_failure_alarm(b)
        ELSE play_generic_alarm(b)

trigger_alarm_no_switch(a, alarm_type, now) ==
    IF a.is_alarm_active
    THEN [a EXCEPT !.cmds = 0]
    ELSE trigger_alarm_no_dedup(a, alarm_type, now)

trigger_alarm(a, alarm_type, now) ==
    IF a.is_alarm_active /\ a.alarm_type = alarm_type
    THEN [a EXCEPT !.cmds = 0]
    ELSE LET b == [a EXCEPT !.is_alarm_active = TRUE,
                            !.alarm_type = alarm_type,
                            !.alarm_start_time = now,
                            !.cmds = 0]
         IN  IF alarm_type = "condensation" THEN play_condensation_alarm(b)
             ELSE IF alarm_type = "sensor_failure"
             THEN play_sensor_failure_alarm(b)
             ELSE play_generic_alarm(b)

stop_alarm_keeps_tone(a) ==
    [a EXCEPT !.is_alarm_active = FALSE,
              !.alarm_type = AlarmNone,
              !.cmds = 0]

stop_alarm(a) ==
    [a EXCEPT !.is_alarm_active = FALSE,
              !.alarm_type = AlarmNone,
              !.buzzer_duty = IF a.buzzer THEN 0 ELSE @,
              !.cmds = IF a.buzzer THEN 1 ELSE 0]

\* alarm_pattern_task as created by asyncio.create_task: not yet started
PatternCreated == [at |-> "created", slept |-> 0]

-----------------------------------------------------------------------------
(* DisplayController *)

DisplayController(has_tft) ==
    [tft |-> has_tft, is_on |-> TRUE, screen |-> "blank"]

set_backlight(d, state) ==
    IF d.tft THEN [d EXCEPT !.is_on = state] ELSE d

show_main_screen(d) ==
    IF d.tft THEN [d EXCEPT !.screen = "main"] ELSE d

show_alarm_screen(d) ==
    IF d.tft THEN [d EXCEPT !.screen = "alarm"] ELSE d

-----------------------------------------------------------------------------
(* EnhancedDataLogger.  A file is a sequence of lines; a line is the header *)
(* or a data row, identified by its timestamp.  File names are              *)
(* <<"current", 0>> for <prefix>_current.csv and <<"rotated", m>> for the   *)
(* rotated file stamped with minute m = time \div 60.                       *)

CurrentLog == <<"current", 0>>

HeaderLine == <<"header", 0>>

HEADER_BYTES == 108

ROW_BYTES == 79

LineBytes(line) == IF line = HeaderLine THEN HEADER_BYTES ELSE ROW_BYTES

RECURSIVE FileSize(_)
FileSize(lines) ==
    IF lines = <<>> THEN 0 ELSE LineBytes(Head(lines)) + FileSize(Tail(lines))

\* self.max_file_size: MB to bytes
max_file_size(p) == p.max_log_file_mb * 1024 * 1024

NoFiles == [n \in {} |-> <<>>]

PutFile(files, name, lines) ==
    [n \in DOMAIN files \cup {name} |-> IF n = name THEN lines ELSE files[n]]

RemoveFiles(files, names) ==
    [n \in DOMAIN files \ names |-> files[n]]

\* order of the file names as strings: the stamps sort by time, and
\* "..._current.csv" sorts after every "..._<YYYY>-..." name
NameLess(n, m) ==
    IF n[1] = "current" THEN FALSE
    ELSE IF m[1] = "current" THEN TRUE
    ELSE n[2] < m[2]

cleanup_old_files(lg, files) ==
    LET newer(n) == {m \in DOMAIN files : NameLess(n, m)}
        old == {n \in DOMAIN files : Cardinality(newer(n)) >= lg.max_files}
    IN  RemoveFiles(files, old)

write_header(files) ==
    IF CurrentLog \notin DOMAIN files \/ files[CurrentLog] = <<>>
    THEN PutFile(files, CurrentLog, <<HeaderLine>>)
    ELSE files

rotate_log_if_needed(lg, files, now) ==
    IF CurrentLog \in DOMAIN files
       /\ FileSize(files[CurrentLog]) > lg.max_file_size
    THEN LET new_name == <<"rotated", now \div 60>>
             renamed  == PutFile(RemoveFiles(files, {CurrentLog}),
                                 new_name, files[CurrentLog])
         IN  write_header(renamed)
    ELSE files

\* mounted: whether storage.mount succeeds in _init_sd_card
EnhancedDataLogger(p, mounted) ==
    [is_mounted |-> mounted, last_log_time |-> 0,
     max_file_size |-> max_file_size(p), max_files |-> p.max_log_files,
     log_interval_sek |-> p.log_interval_sek]

\* card: the files on the SD card when it is mounted
init_sd_card(lg, card) ==
    IF lg.is_mounted THEN write_header(cleanup_old_files(lg, card)) ELSE card

-----------------------------------------------------------------------------
(* Inputs of one iteration *)

\* raw (temperature, humidity) a sensor driver can return
InnenReadings == {<<2000, 5000>>, <<2000, 6200>>, <<2000, 0>>}

AussenReadings == {<<1000, 7000>>, <<1500, 7000>>}

Readings(name) == IF name = "innen" THEN InnenReadings ELSE AussenReadings

\* what sensor.read_async() does: a reading, (None, None), or an exception
ReadOutcomes(name) ==
    {<<"ok", r>> : r \in Readings(name)} \cup
    {<<"none", <<None, None>>>>, <<"raise", <<None, None>>>>}

NoReading == [present |-> FALSE, temp |-> None, humidity |-> None,
              valid |-> FALSE]

NoSensorData == [s \in SensorNames |-> NoReading]

NoProcessed == [t_in |-> None, h_in |-> None, dp_in |-> None,
                t_au |-> None, h_au |-> None, dp_au |-> None]

NoTrends == [in |-> NoTrend, out |-> NoTrend]

NoRisk == [risk_level |-> "None", risk_message |-> "None", status |-> "None"]

\* no component has been called directly
NoCall == [op |-> "none", n |-> 0, interval |-> 0, sensor |-> "none",
           value |-> None, result |-> NoTrend]

-----------------------------------------------------------------------------
(* EnhancedTaupunktController.__init__ *)

\* Pin(n, Pin.OUT) sets no level: the LEDs start dark, or one is still lit
\* from the run before a soft reset
InitialLeds ==
    {[l \in LedNames |-> FALSE], [l \in LedNames |-> l = "rot"]}

ControllerInit(has_buzzer) ==
    /\ pc = "start"
    /\ exc = "none"
    /\ cycles = 0
    /\ cycle_ops = <<>>
    /\ time = BootTime
    /\ wdt_last_feed = BootTime
    /\ system_status = "initializing"
    /\ sensors \in {SensorNames, {"innen"}}
    /\ cal_file = NoStore
    /\ calibrations = load_calibrations(cal_file).calibrations
    /\ sensor_data = NoSensorData
    /\ processed = NoProcessed
    /\ trend_data = NoTrends
    /\ risk_data = NoRisk
    /\ buffers = TrendAnalyzer(params.mess_intervall_sek)
    /\ leds \in InitialLeds
    /\ led_risk = "None"
    /\ display = DisplayController(TRUE)
    /\ is_display_on = TRUE
    /\ last_user_activity = BootTime
    /\ alarm = AlarmController(has_buzzer)
    /\ pattern = PatternCreated
    /\ call = NoCall
    /\ \E mounted \in BOOLEAN :
          /\ logger = EnhancedDataLogger(params, mounted)
          /\ sd = init_sd_card(logger, NoFiles)

\* the default configuration names a buzzer pin
Init == ControllerInit(TRUE)

-----------------------------------------------------------------------------
(* The steps of one iteration, as functions of the controller state *)

\* _read_all_sensors: outcome[name] is what read_async did for that sensor
read_all_sensors(found, cals, outcome) ==
    [name \in SensorNames |->
        IF name \notin found THEN NoReading
        ELSE IF outcome[name][1] = "ok"
                /\ outcome[name][2][1] # None /\ outcome[name][2][2] # None
        THEN LET cal == apply_calibration(cals, name, outcome[name][2][1],
                                          outcome[name][2][2])
             IN  [present |-> TRUE, temp |-> cal[1], humidity |-> cal[2],
                  valid |-> TRUE]
        ELSE [present |-> TRUE, temp |-> None, humidity |-> None,
              valid |-> FALSE]]

\* dict.get(key): None when the dictionary has no such key
get(d, key) == IF key \in DOMAIN d THEN d[key] ELSE None

\* _process_sensor_data.  The keys are built as f't_{location[:2]}': the
\* first two characters of 'innen' are 'in' and those of 'aussen' are 'au',
\* so the outdoor values are stored under 't_au', 'h_au' and 'dp_au'
process_sensor_data(sd_in) ==
    LET ok(loc) == sd_in[loc].present /\ sd_in[loc].valid
        t(loc)  == IF ok(loc) THEN sd_in[loc].temp ELSE None
        h(loc)  == IF ok(loc) THEN sd_in[loc].humidity ELSE None
        dp(loc) == IF ok(loc)
                   THEN calculate_dew_point(sd_in[loc].temp,
                                            sd_in[loc].humidity)
                   ELSE None
    IN  [t_in  |-> t("innen"),  h_in  |-> h("innen"),  dp_in  |-> dp("innen"),
         t_au |-> t("aussen"),  h_au |-> h("aussen"),  dp_au |-> dp("aussen")]

\* _update_trends: the new buffers and the trends dictionary
update_trends(bufs, data) ==
    LET b1 == IF get(data, "t_in") # None
              THEN add_measurement(bufs, "innen", data.t_in) ELSE bufs
        tin == IF get(data, "t_in") # None
               THEN get_trend_data(b1, "innen", data.t_in) ELSE NoTrend
        b2 == IF get(data, "t_out") # None
              THEN add_measurement(b1, "aussen", data.t_out) ELSE b1
        tout == IF get(data, "t_out") # None
                THEN get_trend_data(b2, "aussen", data.t_out) ELSE NoTrend
    IN  <<b2, [in |-> tin, out |-> tout]>>

\* (the outdoor temperature is not tested for None)
evaluate_risks_no_outdoor_test(data) ==
    LET r == IF get(data, "dp_in") # None
             THEN evaluate_condensation_risk(data.dp_in, get(data, "t_out"),
                                             params.taupunkt_grenze_c)
             ELSE <<"unknown", "Sensordaten unvollstaendig">>
    IN  [risk_level |-> r[1], risk_message |-> r[2], status |-> r[1]]

\* _evaluate_risks
evaluate_risks(data) ==
    LET r == IF get(data, "dp_in") # None /\ get(data, "t_out") # None
             THEN evaluate_condensation_risk(data.dp_in, data.t_out,
                                             params.taupunkt_grenze_c)
             ELSE <<"unknown", "Sensordaten unvollstaendig">>
    IN  [risk_level |-> r[1], risk_message |-> r[2], status |-> r[1]]

led_map(risk_level) ==
    CASE risk_level = "ok" -> "gruen"
      [] risk_level = "warning" -> "gelb"
      [] risk_level = "critical" -> "rot"
      [] risk_level = "unknown" -> "gelb"
      [] OTHER -> "gelb"

\* _update_led_status: every LED off, then the LED of the level on
update_led_status_stuck(ls, risk_level) ==
    [l \in LedNames |-> ls[l] \/ l = led_map(risk_level)]

update_led_status(ls, risk_level) ==
    LET off == [l \in LedNames |-> FALSE]
    IN  [off EXCEPT ![led_map(risk_level)] = TRUE]

\* the two conditions of _check_alarms
condensation_due(a, risk) ==
    risk.risk_level = "critical" /\ ~a.is_alarm_active

sensor_failure_due_idle_only(a, data) ==
    /\ get(data, "t_in") = None \/ get(data, "t_out") = None
    /\ ~a.is_alarm_active

sensor_failure_due(a, data) ==
    /\ get(data, "t_in") = None \/ get(data, "t_out") = None
    /\ ~a.is_alarm_active \/ a.alarm_type # "sensor_failure"

\* (an alarm whose cause has cleared is stopped)
check_alarms_auto_clear(a, d, risk, data, now) ==
    LET c1 == condensation_due(a, risk)
        a1 == IF c1 THEN trigger_alarm(a, "condensation", now) ELSE a
        d1 == IF c1 THEN show_alarm_screen(d) ELSE d
        a2 == IF sensor_failure_due(a1, data)
              THEN trigger_alarm(a1, "sensor_failure", now) ELSE a1
        cleared == /\ risk.risk_level # "critical"
                   /\ get(data, "t_in") # None /\ get(data, "t_out") # None
    IN  <<IF cleared THEN stop_alarm(a2) ELSE a2, d1>>

\* _check_alarms: the new alarm controller and display
check_alarms(a, d, risk, data, now) ==
    LET c1 == condensation_due(a, risk)
        a1 == IF c1 THEN trigger_alarm(a, "condensation", now) ELSE a
        d1 == IF c1 THEN show_alarm_screen(d) ELSE d
        a2 == IF sensor_failure_due(a1, data)
              THEN trigger_alarm(a1, "sensor_failure", now) ELSE a1
    IN  <<a2, d1>>

\* the values the CSV row reads with data[key], in the order of the f-string
RowKeys == <<"t_in", "h_in", "dp_in", "t_out", "h_out", "dp_out">>

\* the exception formatting the CSV row ends with, "none" if it succeeds:
\* data[key] raises KeyError when the key is absent, f"{None:.2f}" raises
\* TypeError, trends['in'] and trends['out'] raise KeyError when absent.
\* The fields are evaluated from left to right
RECURSIVE RowException(_, _)
RowException(data, keys) ==
    IF keys = <<>> THEN "none"
    ELSE IF Head(keys) \notin DOMAIN data THEN "KeyError"
    ELSE IF data[Head(keys)] = None THEN "TypeError"
    ELSE RowException(data, Tail(keys))

log_line_exception(data, trends) ==
    IF RowException(data, RowKeys) # "none"
    THEN RowException(data, RowKeys)
    ELSE IF ~trends.in.present \/ ~trends.out.present THEN "KeyError"
    ELSE "none"

log_line_raises(data, trends) == log_line_exception(data, trends) # "none"

\* (no test of the interval)
log_data_async_no_interval(lg, files, data, trends, now, write_ok) ==
    IF ~lg.is_mounted
    THEN [logger |-> lg, sd |-> files, raised |-> FALSE]
    ELSE LET rotated == rotate_log_if_needed(lg, files, now)
         IN  IF log_line_raises(data, trends)
             THEN [logger |-> lg, sd |-> rotated, raised |-> TRUE]
             ELSE IF write_ok
             THEN [logger |-> [lg EXCEPT !.last_log_time = now],
                   sd |-> PutFile(rotated, CurrentLog,
                                  Append(IF CurrentLog \in DOMAIN rotated
                                         THEN rotated[CurrentLog] ELSE <<>>,
                                         <<"row", now>>)),
                   raised |-> FALSE]
             ELSE [logger |-> lg, sd |-> rotated, raised |-> FALSE]

\* (last_log_time set before the write is known to have succeeded)
log_data_async_stamps_failure(lg, files, data, trends, now, write_ok) ==
    IF ~lg.is_mounted \/ now - lg.last_log_time < lg.log_interval_sek
    THEN [logger |-> lg, sd |-> files, raised |-> FALSE]
    ELSE LET rotated == rotate_log_if_needed(lg, files, now)
         IN  IF log_line_raises(data, trends)
             THEN [logger |-> lg, sd |-> rotated, raised |-> TRUE]
             ELSE IF write_ok
             THEN [logger |-> [lg EXCEPT !.last_log_time = now],
                   sd |-> PutFile(rotated, CurrentLog,
                                  Append(IF CurrentLog \in DOMAIN rotated
                                         THEN rotated[CurrentLog] ELSE <<>>,
                                         <<"row", now>>)),
                   raised |-> FALSE]
             ELSE [logger |-> [lg EXCEPT !.last_log_time = now],
                   sd |-> rotated, raised |-> FALSE]

\* log_data_async(data, trends) at time now; write_ok is whether
\* open(file_path, 'a') and f.write succeed.  The result is the logger, the
\* files, and whether the call raised (the row is formatted outside the try)
log_data_async(lg, files, data, trends, now, write_ok) ==
    IF ~lg.is_mounted \/ now - lg.last_log_time < lg.log_interval_sek
    THEN [logger |-> lg, sd |-> files, raised |-> FALSE]
    ELSE LET rotated == rotate_log_if_needed(lg, files, now)
         IN  IF log_line_raises(data, trends)
             THEN [logger |-> lg, sd |-> rotated, raised |-> TRUE]
             ELSE IF write_ok
             THEN [logger |-> [lg EXCEPT !.last_log_time = now],
                   sd |-> PutFile(rotated, CurrentLog,
                                  Append(IF CurrentLog \in DOMAIN rotated
                                         THEN rotated[CurrentLog] ELSE <<>>,
                                         <<"row", now>>)),
                   raised |-> FALSE]
             ELSE [logger |-> lg, sd |-> rotated, raised |-> FALSE]

-----------------------------------------------------------------------------
(* control_loop *)

loop_vars == <<pc, exc, cycles, cycle_ops, time, wdt_last_feed,
               system_status, sensor_data, processed, trend_data, risk_data>>

hw_vars == <<buffers, leds, led_risk, display, is_display_on,
             last_user_activity, alarm, logger, sd>>

config_vars == <<sensors, calibrations, cal_file>>

\* the alarm pattern task is a coroutine of its own
task_vars == <<pattern>>

\* the record of a call made on a component directly, not by control_loop
call_vars == <<call>>

\* the statements of the try block after wdt.feed()
TryBody == {"read", "process", "trends", "risks", "led", "display",
            "alarms", "timeout", "log", "gc"}

Step(from, to, op) ==
    /\ pc = from
    /\ pc' = to
    /\ cycle_ops' = Append(cycle_ops, op)

StartLoop ==
    /\ pc = "start"
    /\ pc' = "feed"
    /\ system_status' = "running"
    /\ UNCHANGED <<exc, cycles, cycle_ops, time, wdt_last_feed, sensor_data,
                   processed, trend_data, risk_data>>
    /\ UNCHANGED hw_vars
    /\ UNCHANGED config_vars
    /\ UNCHANGED call_vars
    /\ UNCHANGED task_vars

WdtFeed ==
    /\ cycles < MaxCycles
    /\ Step("feed", "read", "feed")
    /\ cycles' = cycles + 1
    /\ wdt_last_feed' = time
    /\ UNCHANGED <<exc, time, system_status, sensor_data, processed,
                   trend_data, risk_data>>
    /\ UNCHANGED hw_vars
    /\ UNCHANGED config_vars
    /\ UNCHANGED call_vars
    /\ UNCHANGED task_vars

ReadAllSensors ==
    /\ Step("read", "process", "read")
    /\ \E outcome \in [SensorNames -> UNION {ReadOutcomes(n) : n \in SensorNames}] :
          /\ \A n \in SensorNames : outcome[n] \in ReadOutcomes(n)
          /\ \A n \in SensorNames \ sensors : outcome[n][1] = "none"
          /\ sensor_data' = read_all_sensors(sensors, calibrations, outcome)
    /\ UNCHANGED <<exc, cycles, time, wdt_last_feed, system_status, processed,
                   trend_data, risk_data>>
    /\ UNCHANGED hw_vars
    /\ UNCHANGED config_vars
    /\ UNCHANGED call_vars
    /\ UNCHANGED task_vars

ProcessSensorData ==
    /\ Step("process", "trends", "process")
    /\ processed' = process_sensor_data(sensor_data)
    /\ UNCHANGED <<exc, cycles, time, wdt_last_feed, system_status,
                   sensor_data, trend_data, risk_data>>
    /\ UNCHANGED hw_vars
    /\ UNCHANGED config_vars
    /\ UNCHANGED call_vars
    /\ UNCHANGED task_vars

UpdateTrends ==
    /\ Step("trends", "risks", "trends")
    /\ buffers' = update_trends(buffers, processed)[1]
    /\ trend_data' = update_trends(buffers, processed)[2]
    /\ UNCHANGED <<exc, cycles, time, wdt_last_feed, system_status,
                   sensor_data, processed, risk_data>>
    /\ UNCHANGED <<leds, led_risk, display, is_display_on,
                   last_user_activity, alarm, logger, sd>>
    /\ UNCHANGED config_vars
    /\ UNCHANGED call_vars
    /\ UNCHANGED task_vars

EvaluateRisks ==
    /\ Step("risks", "led", "risks")
    /\ risk_data' = evaluate_risks(processed)
    /\ UNCHANGED <<exc, cycles, time, wdt_last_feed, system_status,
                   sensor_data, processed, trend_data>>
    /\ UNCHANGED hw_vars
    /\ UNCHANGED config_vars
    /\ UNCHANGED call_vars
    /\ UNCHANGED task_vars

UpdateLedStatus ==
    /\ Step("led", "display", "led")
    /\ leds' = update_led_status(leds, risk_data.risk_level)
    /\ led_risk' = risk_data.risk_level
    /\ UNCHANGED <<exc, cycles, time, wdt_last_feed, system_status,
                   sensor_data, processed, trend_data, risk_data>>
    /\ UNCHANGED <<buffers, display, is_display_on, last_user_activity,
                   alarm, logger, sd>>
    /\ UNCHANGED config_vars
    /\ UNCHANGED call_vars
    /\ UNCHANGED task_vars

UpdateDisplay ==
    /\ Step("display", "alarms", "display")
    /\ display' = IF is_display_on THEN show_main_screen(display) ELSE display
    /\ UNCHANGED <<exc, cycles, time, wdt_last_feed, system_status,
                   sensor_data, processed, trend_data, risk_data>>
    /\ UNCHANGED <<buffers, leds, led_risk, is_display_on,
                   last_user_activity, alarm, logger, sd>>
    /\ UNCHANGED config_vars
    /\ UNCHANGED call_vars
    /\ UNCHANGED task_vars

CheckAlarms ==
    /\ Step("alarms", "timeout", "alarms")
    /\ alarm' = check_alarms(alarm, display, risk_data, processed, time)[1]
    /\ display' = check_alarms(alarm, display, risk_data, processed, time)[2]
    /\ UNCHANGED <<exc, cycles, time, wdt_last_feed, system_status,
                   sensor_data, processed, trend_data, risk_data>>
    /\ UNCHANGED <<buffers, leds, led_risk, is_display_on,
                   last_user_activity, logger, sd>>
    /\ UNCHANGED config_vars
    /\ UNCHANGED call_vars
    /\ UNCHANGED task_vars

\* (the time of the last user activity is not looked at)
CheckDisplayTimeout_no_activity ==
    /\ Step("timeout", "log", "timeout")
    /\ IF is_display_on
       THEN /\ display' = set_backlight(display, FALSE)
            /\ is_display_on' = FALSE
       ELSE UNCHANGED <<display, is_display_on>>
    /\ UNCHANGED <<exc, cycles, time, wdt_last_feed, system_status,
                   sensor_data, processed, trend_data, risk_data>>
    /\ UNCHANGED <<buffers, leds, led_risk, last_user_activity, alarm,
                   logger, sd>>
    /\ UNCHANGED config_vars
    /\ UNCHANGED call_vars
    /\ UNCHANGED task_vars

CheckDisplayTimeout ==
    /\ Step("timeout", "log", "timeout")
    /\ IF is_display_on
          /\ time - last_user_activity > params.display_timeout_sek
       THEN /\ display' = set_backlight(display, FALSE)
            /\ is_display_on' = FALSE
       ELSE UNCHANGED <<display, is_display_on>>
    /\ UNCHANGED <<exc, cycles, time, wdt_last_feed, system_status,
                   sensor_data, processed, trend_data, risk_data>>
    /\ UNCHANGED <<buffers, leds, led_risk, last_user_activity, alarm,
                   logger, sd>>
    /\ UNCHANGED config_vars
    /\ UNCHANGED call_vars
    /\ UNCHANGED task_vars

\* the try block is left by an exception: its locals are dead
Unwind ==
    /\ pc' = "except"
    /\ cycle_ops' = <<>>
    /\ sensor_data' = NoSensorData
    /\ processed' = NoProcessed
    /\ trend_data' = NoTrends
    /\ risk_data' = NoRisk

\* an operation of the try block raises an Exception
RaiseInCycle ==
    /\ pc \in TryBody
    /\ Unwind
    /\ exc' = "collaborator"
    /\ UNCHANGED <<cycles, time, wdt_last_feed, system_status>>
    /\ UNCHANGED hw_vars
    /\ UNCHANGED config_vars
    /\ UNCHANGED call_vars
    /\ UNCHANGED task_vars

\* enhanced_logger.log_data_async(complete_data, trend_data); write_ok is
\* whether open(file_path, 'a') and f.write succeed
LogData ==
    /\ pc = "log"
    /\ \E write_ok \in BOOLEAN :
        LET r == log_data_async(logger, sd, processed, trend_data, time,
                                write_ok)
        IN  /\ logger' = r.logger
            /\ sd' = r.sd
            /\ IF r.raised
               THEN /\ Unwind
                    /\ exc' = log_line_exception(processed, trend_data)
               ELSE /\ Step("log", "gc", "log")
                    /\ UNCHANGED <<exc, sensor_data, processed, trend_data,
                                   risk_data>>
    /\ UNCHANGED <<cycles, time, wdt_last_feed, system_status>>
    /\ UNCHANGED <<buffers, leds, led_risk, display, is_display_on,
                   last_user_activity, alarm>>
    /\ UNCHANGED config_vars
    /\ UNCHANGED call_vars
    /\ UNCHANGED task_vars

\* if time.time() % 300 < 1: gc.collect()
MemoryManagement ==
    /\ Step("gc", "sleep", "gc")
    /\ UNCHANGED <<exc, cycles, time, wdt_last_feed, system_status,
                   sensor_data, processed, trend_data, risk_data>>
    /\ UNCHANGED hw_vars
    /\ UNCHANGED config_vars
    /\ UNCHANGED call_vars
    /\ UNCHANGED task_vars

\* await asyncio.sleep(mess_intervall_sek); the locals of the iteration die
\* (a cycle that ran to its end records 'running' again)
Sleep_recovers ==
    /\ pc = "sleep"
    /\ pc' = "feed"
    /\ time' = time + params.mess_intervall_sek
    /\ cycle_ops' = <<>>
    /\ sensor_data' = NoSensorData
    /\ processed' = NoProcessed
    /\ trend_data' = NoTrends
    /\ risk_data' = NoRisk
    /\ system_status' = "running"
    /\ UNCHANGED <<exc, cycles, wdt_last_feed>>
    /\ UNCHANGED hw_vars
    /\ UNCHANGED config_vars
    /\ UNCHANGED call_vars
    /\ UNCHANGED task_vars

Sleep ==
    /\ pc = "sleep"
    /\ pc' = "feed"
    /\ time' = time + params.mess_intervall_sek
    /\ cycle_ops' = <<>>
    /\ sensor_data' = NoSensorData
    /\ processed' = NoProcessed
    /\ trend_data' = NoTrends
    /\ risk_data' = NoRisk
    /\ UNCHANGED <<exc, cycles, wdt_last_feed, system_status>>
    /\ UNCHANGED hw_vars
    /\ UNCHANGED config_vars
    /\ UNCHANGED call_vars
    /\ UNCHANGED task_vars


\* except Exception: self.system_status = "error"
HandleFault_exit ==
    /\ pc = "except"
    /\ pc' = "done"
    /\ system_status' = "error"
    /\ UNCHANGED <<exc, cycles, cycle_ops, time, wdt_last_feed, sensor_data,
                   processed, trend_data, risk_data>>
    /\ UNCHANGED hw_vars
    /\ UNCHANGED config_vars
    /\ UNCHANGED call_vars
    /\ UNCHANGED task_vars

HandleFault ==
    /\ pc = "except"
    /\ pc' = "backoff"
    /\ system_status' = "error"
    /\ UNCHANGED <<exc, cycles, cycle_ops, time, wdt_last_feed, sensor_data,
                   processed, trend_data, risk_data>>
    /\ UNCHANGED hw_vars
    /\ UNCHANGED config_vars
    /\ UNCHANGED call_vars
    /\ UNCHANGED task_vars

\* await asyncio.sleep(10), then the next iteration of while True
BackoffSleep_skip_feed ==
    /\ pc = "backoff"
    /\ pc' = "read"
    /\ exc' = "none"
    /\ time' = time + BACKOFF_SEK
    /\ UNCHANGED <<cycles, cycle_ops, wdt_last_feed, system_status,
                   sensor_data, processed, trend_data, risk_data>>
    /\ UNCHANGED hw_vars
    /\ UNCHANGED config_vars
    /\ UNCHANGED call_vars
    /\ UNCHANGED task_vars

BackoffSleep ==
    /\ pc = "backoff"
    /\ pc' = "feed"
    /\ exc' = "none"
    /\ time' = time + BACKOFF_SEK
    /\ UNCHANGED <<cycles, cycle_ops, wdt_last_feed, system_status,
                   sensor_data, processed, trend_data, risk_data>>
    /\ UNCHANGED hw_vars
    /\ UNCHANGED config_vars
    /\ UNCHANGED call_vars
    /\ UNCHANGED task_vars

-----------------------------------------------------------------------------
(* The wake-up button interrupt *)

handle_wakeup ==
    /\ last_user_activity' = time
    /\ IF ~is_display_on
       THEN /\ display' = set_backlight(display, TRUE)
            /\ is_display_on' = TRUE
       ELSE UNCHANGED <<display, is_display_on>>
    /\ alarm' = IF alarm.is_alarm_active THEN stop_alarm(alarm) ELSE alarm
    /\ UNCHANGED loop_vars
    /\ UNCHANGED <<buffers, leds, led_risk, logger, sd>>
    /\ UNCHANGED config_vars
    /\ UNCHANGED call_vars
    /\ UNCHANGED task_vars

-----------------------------------------------------------------------------

LoopStep ==
    \/ StartLoop
    \/ WdtFeed
    \/ ReadAllSensors
    \/ ProcessSensorData
    \/ UpdateTrends
    \/ EvaluateRisks
    \/ UpdateLedStatus
    \/ UpdateDisplay
    \/ CheckAlarms
    \/ CheckDisplayTimeout
    \/ LogData
    \/ MemoryManagement
    \/ Sleep
    \/ HandleFault
    \/ BackoffSleep

Next ==
    \/ LoopStep
    \/ RaiseInCycle
    \/ handle_wakeup

Spec == Init /\ [][Next]_vars

LiveSpec == Spec /\ WF_vars(LoopStep)

-----------------------------------------------------------------------------
(* The steps of the cycle on a data dictionary that names the outdoor       *)
(* values the way the steps read them.  _update_trends, _evaluate_risks,    *)
(* _check_alarms and log_data_async take the dictionary as a parameter and  *)
(* read 't_out', 'h_out' and 'dp_out' from it; here they are called with a  *)
(* dictionary that has those keys, in the order control_loop calls them.    *)

\* the readings of a cycle under the keys the steps read
caller_data(sd_in) ==
    LET p == process_sensor_data(sd_in)
    IN  [t_in  |-> p.t_in, h_in  |-> p.h_in, dp_in  |-> p.dp_in,
         t_out |-> p.t_au, h_out |-> p.h_au, dp_out |-> p.dp_au]

GivenProcessedData ==
    /\ Step("process", "trends", "process")
    /\ processed' = caller_data(sensor_data)
    /\ UNCHANGED <<exc, cycles, time, wdt_last_feed, system_status,
                   sensor_data, trend_data, risk_data>>
    /\ UNCHANGED hw_vars
    /\ UNCHANGED config_vars
    /\ UNCHANGED call_vars
    /\ UNCHANGED task_vars

StepLoopStep ==
    \/ StartLoop
    \/ WdtFeed
    \/ ReadAllSensors
    \/ GivenProcessedData
    \/ UpdateTrends
    \/ EvaluateRisks
    \/ UpdateLedStatus
    \/ UpdateDisplay
    \/ CheckAlarms
    \/ CheckDisplayTimeout
    \/ LogData
    \/ MemoryManagement
    \/ Sleep
    \/ HandleFault
    \/ BackoffSleep

StepNext ==
    \/ StepLoopStep
    \/ RaiseInCycle
    \/ handle_wakeup

StepSpec == Init /\ [][StepNext]_vars

-----------------------------------------------------------------------------
(* The AlarmController on its own: any caller, any order of calls *)

ApiTrigger(k) ==
    /\ alarm' = trigger_alarm(alarm, k, time)
    /\ UNCHANGED <<pc, exc, cycles, cycle_ops, time, wdt_last_feed,
                   system_status, sensor_data, processed, trend_data,
                   risk_data>>
    /\ UNCHANGED <<buffers, leds, led_risk, display, is_display_on,
                   last_user_activity, logger, sd>>
    /\ UNCHANGED config_vars
    /\ UNCHANGED call_vars
    /\ UNCHANGED task_vars

ApiStop ==
    /\ alarm' = stop_alarm(alarm)
    /\ UNCHANGED <<pc, exc, cycles, cycle_ops, time, wdt_last_feed,
                   system_status, sensor_data, processed, trend_data,
                   risk_data>>
    /\ UNCHANGED <<buffers, leds, led_risk, display, is_display_on,
                   last_user_activity, logger, sd>>
    /\ UNCHANGED config_vars
    /\ UNCHANGED call_vars
    /\ UNCHANGED task_vars

Tick ==
    /\ time < BootTime + MaxTicks
    /\ time' = time + 1
    /\ UNCHANGED <<pc, exc, cycles, cycle_ops, wdt_last_feed,
                   system_status, sensor_data, processed, trend_data,
                   risk_data>>
    /\ UNCHANGED hw_vars
    /\ UNCHANGED config_vars
    /\ UNCHANGED call_vars
    /\ UNCHANGED task_vars

AlarmInit == \E has_buzzer \in BOOLEAN : ControllerInit(has_buzzer)

AlarmNext ==
    \/ \E k \in AlarmKinds : ApiTrigger(k)
    \/ ApiStop
    \/ Tick

AlarmSpec == AlarmInit /\ [][AlarmNext]_vars

-----------------------------------------------------------------------------
(* The control loop statement by statement where it shares state with the   *)
(* wake-up interrupt: _check_alarms with the body of trigger_alarm, and     *)
(* _check_display_timeout.  The interrupt handler runs to completion        *)
(* between any two statements.                                              *)

\* the positions inside trigger_alarm(alarm_type): the test of the first
\* line, then the three assignments, then the tone
TriggerPc(alarm_type, stmt) ==
    IF alarm_type = "condensation"
    THEN CASE stmt = "test"   -> "c_test"
           [] stmt = "active" -> "c_active"
           [] stmt = "type"   -> "c_type"
           [] stmt = "start"  -> "c_start"
           [] stmt = "play"   -> "c_play"
           [] stmt = "return" -> "c_screen"
    ELSE CASE stmt = "test"   -> "s_test"
           [] stmt = "active" -> "s_active"
           [] stmt = "type"   -> "s_type"
           [] stmt = "start"  -> "s_start"
           [] stmt = "play"   -> "s_play"
           [] stmt = "return" -> "timeout"

CheckedKinds == {"condensation", "sensor_failure"}

InTriggerAlarm ==
    {TriggerPc(k, stmt) : k \in CheckedKinds,
                          stmt \in {"test", "active", "type", "start", "play"}}

\* what a statement of _check_alarms or _check_display_timeout leaves alone
StmtFrame ==
    /\ UNCHANGED <<exc, cycles, time, wdt_last_feed, system_status,
                   sensor_data, processed, trend_data, risk_data>>
    /\ UNCHANGED <<buffers, leds, led_risk, last_user_activity, logger, sd>>
    /\ UNCHANGED config_vars
    /\ UNCHANGED call_vars
    /\ UNCHANGED task_vars

\* if risk_level == 'critical' and not self.alarm.is_alarm_active:
TestCondensation ==
    /\ pc = "alarms"
    /\ pc' = IF condensation_due(alarm, risk_data)
             THEN TriggerPc("condensation", "test") ELSE "s_cond"
    /\ cycle_ops' = Append(cycle_ops, "alarms")
    /\ UNCHANGED <<alarm, display, is_display_on>>
    /\ StmtFrame

\* if self.is_alarm_active and self.alarm_type == alarm_type: return
TriggerTest(k) ==
    /\ pc = TriggerPc(k, "test")
    /\ pc' = IF alarm.is_alarm_active /\ alarm.alarm_type = k
             THEN TriggerPc(k, "return") ELSE TriggerPc(k, "active")
    /\ UNCHANGED <<cycle_ops, alarm, display, is_display_on>>
    /\ StmtFrame

\* self.is_alarm_active = True
TriggerSetActive(k) ==
    /\ pc = TriggerPc(k, "active")
    /\ pc' = TriggerPc(k, "type")
    /\ alarm' = [alarm EXCEPT !.is_alarm_active = TRUE]
    /\ UNCHANGED <<cycle_ops, display, is_display_on>>
    /\ StmtFrame

\* self.alarm_type = alarm_type
TriggerSetType(k) ==
    /\ pc = TriggerPc(k, "type")
    /\ pc' = TriggerPc(k, "start")
    /\ alarm' = [alarm EXCEPT !.alarm_type = k]
    /\ UNCHANGED <<cycle_ops, display, is_display_on>>
    /\ StmtFrame

\* self.alarm_start_time = time.time()
TriggerSetStart(k) ==
    /\ pc = TriggerPc(k, "start")
    /\ pc' = TriggerPc(k, "play")
    /\ alarm' = [alarm EXCEPT !.alarm_start_time = time]
    /\ UNCHANGED <<cycle_ops, display, is_display_on>>
    /\ StmtFrame

\* self._play_condensation_alarm() or self._play_sensor_failure_alarm()
TriggerPlay(k) ==
    /\ pc = TriggerPc(k, "play")
    /\ pc' = TriggerPc(k, "return")
    /\ alarm' = IF k = "condensation" THEN play_condensation_alarm(alarm)
                ELSE play_sensor_failure_alarm(alarm)
    /\ UNCHANGED <<cycle_ops, display, is_display_on>>
    /\ StmtFrame

\* the two ifs of the sensor failure alarm; after trigger_alarm(
\* 'condensation') returned, self.display.show_alarm_screen('KONDENSATION',
\* message) comes first
TestSensorFailure ==
    /\ pc \in {"s_cond", "c_screen"}
    /\ pc' = IF sensor_failure_due(alarm, processed)
             THEN TriggerPc("sensor_failure", "test") ELSE "timeout"
    /\ display' = IF pc = "c_screen" THEN show_alarm_screen(display)
                  ELSE display
    /\ UNCHANGED <<cycle_ops, alarm, is_display_on>>
    /\ StmtFrame

\* if self.is_display_on and time.time() - self.last_user_activity > ...
TestDisplayTimeout ==
    /\ pc = "timeout"
    /\ pc' = IF is_display_on
                /\ time - last_user_activity > params.display_timeout_sek
             THEN "to_backlight" ELSE "log"
    /\ cycle_ops' = Append(cycle_ops, "timeout")
    /\ UNCHANGED <<alarm, display, is_display_on>>
    /\ StmtFrame

\* self.display.set_backlight(False)
TimeoutBacklight ==
    /\ pc = "to_backlight"
    /\ pc' = "to_flag"
    /\ display' = set_backlight(display, FALSE)
    /\ UNCHANGED <<cycle_ops, alarm, is_display_on>>
    /\ StmtFrame

\* self.is_display_on = False
TimeoutFlag ==
    /\ pc = "to_flag"
    /\ pc' = "log"
    /\ is_display_on' = FALSE
    /\ UNCHANGED <<cycle_ops, alarm, display>>
    /\ StmtFrame

StmtLoopStep ==
    \/ StartLoop
    \/ WdtFeed
    \/ ReadAllSensors
    \/ ProcessSensorData
    \/ UpdateTrends
    \/ EvaluateRisks
    \/ UpdateLedStatus
    \/ UpdateDisplay
    \/ TestCondensation
    \/ \E k \in CheckedKinds : TriggerTest(k)
    \/ \E k \in CheckedKinds : TriggerSetActive(k)
    \/ \E k \in CheckedKinds : TriggerSetType(k)
    \/ \E k \in CheckedKinds : TriggerSetStart(k)
    \/ \E k \in CheckedKinds : TriggerPlay(k)
    \/ TestSensorFailure
    \/ TestDisplayTimeout
    \/ TimeoutBacklight
    \/ TimeoutFlag
    \/ LogData
    \/ MemoryManagement
    \/ Sleep
    \/ HandleFault
    \/ BackoffSleep

IrqNext ==
    \/ StmtLoopStep
    \/ handle_wakeup

IrqSpec == Init /\ [][IrqNext]_vars

-----------------------------------------------------------------------------
(* run_system: control_loop and alarm_pattern_task as two coroutines of the *)
(* uasyncio scheduler, the wake-up interrupt, and the ways the run ends.    *)
(* A coroutine runs from one await to the next without the other running;   *)
(* the interrupt handler runs between any two statements.                   *)

\* control_loop is suspended in an await: the sensor read (sleep_ms in
\* read_async), asyncio.sleep(mess_intervall_sek) or asyncio.sleep(10)
LoopAwaits == {"read", "sleep", "backoff"}

\* alarm_pattern_task is not running: not yet started, or in a sleep_ms
PatternSuspended == {"created", "sleep_on", "sleep_off", "sleep_idle"}

ON_MS == 500

OFF_MS == 500

IDLE_MS == 100

\* ms of the sleep_ms the task is in
SleepMs(at) ==
    CASE at = "sleep_on" -> ON_MS
      [] at = "sleep_off" -> OFF_MS
      [] at = "sleep_idle" -> IDLE_MS
      [] OTHER -> 0

PatternFrame ==
    /\ UNCHANGED loop_vars
    /\ UNCHANGED <<buffers, leds, led_risk, display, is_display_on,
                   last_user_activity, logger, sd>>
    /\ UNCHANGED config_vars
    /\ UNCHANGED call_vars

\* the start of an iteration of while True (after the sleep of the one
\* before): if self.is_alarm_active and self.alarm_type == 'sensor_failure'
PatternTest ==
    /\ pc \in LoopAwaits
    /\ pattern.at \in {"created", "sleep_off", "sleep_idle"}
    /\ pattern' = [at |-> IF alarm.is_alarm_active
                             /\ alarm.alarm_type = "sensor_failure"
                          THEN "on" ELSE "sleep_idle",
                   slept |-> SleepMs(pattern.at)]
    /\ UNCHANGED alarm
    /\ PatternFrame

\* if self.buzzer: self.buzzer.duty_u16(32768); then sleep_ms(500)
PatternOn ==
    /\ pc \in LoopAwaits
    /\ pattern.at = "on"
    /\ pattern' = [pattern EXCEPT !.at = "sleep_on"]
    /\ alarm' = IF alarm.buzzer
                THEN [alarm EXCEPT !.buzzer_duty = 32768] ELSE alarm
    /\ PatternFrame

\* after sleep_ms(500): if self.buzzer: self.buzzer.duty_u16(0); then
\* sleep_ms(500)
PatternOff ==
    /\ pc \in LoopAwaits
    /\ pattern.at = "sleep_on"
    /\ pattern' = [at |-> "sleep_off", slept |-> SleepMs(pattern.at)]
    /\ alarm' = IF alarm.buzzer
                THEN [alarm EXCEPT !.buzzer_duty = 0] ELSE alarm
    /\ PatternFrame

ExitFrame ==
    /\ UNCHANGED <<exc, cycles, cycle_ops, time, wdt_last_feed,
                   system_status, sensor_data, processed, trend_data,
                   risk_data>>
    /\ UNCHANGED <<buffers, leds, led_risk, is_display_on,
                   last_user_activity, logger, sd>>
    /\ UNCHANGED config_vars
    /\ UNCHANGED call_vars

\* a buzzer call of alarm_pattern_task raises: the exception leaves the task
\* and gather, and run_system's finally runs.  stop_alarm calls the buzzer
\* again, after it has cleared the flags; if that raises too, the finally
\* block is left before set_backlight(False)
TaskException ==
    /\ pc \in LoopAwaits
    /\ pattern.at \in {"on", "sleep_on"}
    /\ alarm.buzzer
    /\ pc' = "done"
    /\ pattern' = [pattern EXCEPT !.at = "dead"]
    /\ \E buzzer_raises \in BOOLEAN :
          IF buzzer_raises
          THEN /\ alarm' = [alarm EXCEPT !.is_alarm_active = FALSE,
                                         !.alarm_type = AlarmNone,
                                         !.cmds = 0]
               /\ UNCHANGED display
          ELSE /\ alarm' = stop_alarm(alarm)
               /\ display' = set_backlight(display, FALSE)
    /\ ExitFrame

\* Ctrl-C: KeyboardInterrupt is raised in the coroutine that is running or
\* in the scheduler's wait, never in run_system, which is suspended in
\* await gather; it is not an Exception, so neither control_loop nor the
\* scheduler catches it and it leaves asyncio.run(main()).  run_system is
\* never resumed: its except and finally clauses do not run
KeyboardInterrupt ==
    /\ pc # "done"
    /\ pc' = "done"
    /\ UNCHANGED <<alarm, display, pattern>>
    /\ ExitFrame

TaskNext ==
    \/ pattern.at \in PatternSuspended /\ LoopStep
    \/ PatternTest
    \/ PatternOn
    \/ PatternOff
    \/ handle_wakeup
    \/ TaskException
    \/ KeyboardInterrupt

TaskSpec == Init /\ [][TaskNext]_vars

-----------------------------------------------------------------------------
(* The AlarmController with its alarm_pattern_task running: a calling       *)
(* coroutine that triggers alarms while the task is suspended in one of its *)
(* sleeps, and stop_alarm called from the interrupt handler at any time.    *)

\* the calling coroutine reaches its first await (asyncio.sleep): from now
\* on the scheduler runs alarm_pattern_task
CallerAwaits ==
    /\ pc = "start"
    /\ pc' = "sleep"
    /\ UNCHANGED <<exc, cycles, cycle_ops, time, wdt_last_feed,
                   system_status, sensor_data, processed, trend_data,
                   risk_data>>
    /\ UNCHANGED hw_vars
    /\ UNCHANGED config_vars
    /\ UNCHANGED call_vars
    /\ UNCHANGED task_vars

PatternNext ==
    \/ CallerAwaits
    \/ \E k \in AlarmKinds : pattern.at \in PatternSuspended /\ ApiTrigger(k)
    \/ ApiStop
    \/ PatternTest
    \/ PatternOn
    \/ PatternOff

PatternSpec == AlarmInit /\ [][PatternNext]_vars

-----------------------------------------------------------------------------
(* The TrendAnalyzer on its own, as tests/test_trend.py uses it: built for  *)
(* a measurement interval, then add_measurement and get_trend_data in any   *)
(* order, for known and unknown sensor names.                               *)

\* measurement_interval: tests/test_trend.py's 60 s and the controller's
\* mess_intervall_sek
TrendIntervals == {60, params.mess_intervall_sek}

\* sensor names passed by a caller; 'keller' is not a key of self.buffers
CallerSensorNames == SensorNames \cup {"keller"}

\* values fed: 20 + i for the i-th call, as in test_trend_computation, or a
\* constant 20.0
FedValues(n) == {2000 + 100 * n, 2000}

CurrentValues == {2000, 2200, 2250, 2251, 2400}

TrendFrame ==
    /\ UNCHANGED loop_vars
    /\ UNCHANGED <<leds, led_risk, display, is_display_on,
                   last_user_activity, alarm, logger, sd>>
    /\ UNCHANGED config_vars
    /\ UNCHANGED task_vars

\* analyzer = TrendAnalyzer(measurement_interval=...)
ApiNewAnalyzer(interval) ==
    /\ call.op = "none"
    /\ buffers' = TrendAnalyzer(interval)
    /\ call' = [NoCall EXCEPT !.op = "new", !.interval = interval]
    /\ TrendFrame

\* analyzer.add_measurement(sensor_name, value)
ApiAddMeasurement(sensor_name, value) ==
    /\ call.op \in {"new", "add", "get"}
    /\ call.n < MaxAdds
    /\ buffers' = add_measurement(buffers, sensor_name, value)
    /\ call' = [op |-> "add", n |-> call.n + 1, interval |-> call.interval,
                sensor |-> sensor_name, value |-> value, result |-> NoTrend]
    /\ TrendFrame

\* analyzer.get_trend_data(sensor_name, current_value)
ApiGetTrend(sensor_name, current_value) ==
    /\ call.op \in {"new", "add", "get"}
    /\ call' = [op |-> "get", n |-> call.n, interval |-> call.interval,
                sensor |-> sensor_name, value |-> current_value,
                result |-> get_trend_data(buffers, sensor_name,
                                          current_value)]
    /\ UNCHANGED buffers
    /\ TrendFrame

TrendNext ==
    \/ \E interval \in TrendIntervals : ApiNewAnalyzer(interval)
    \/ \E name \in CallerSensorNames : \E v \in FedValues(call.n) :
          ApiAddMeasurement(name, v)
    \/ \E name \in CallerSensorNames : \E v \in CurrentValues :
          ApiGetTrend(name, v)

\* the controller around the analyzer plays no part: one configuration
TrendInit ==
    /\ Init
    /\ sensors = SensorNames
    /\ leds = [l \in LedNames |-> FALSE]
    /\ ~logger.is_mounted

TrendSpec == TrendInit /\ [][TrendNext]_vars

-----------------------------------------------------------------------------
(* The TrendAnalyzer built for a measurement interval of 300 s (windows of  *)
(* 1, 3 and 12 samples), the caller keeping the list of the values it fed   *)
(* for each sensor.                                                         *)

WindowInterval == 300

\* analyzer = TrendAnalyzer(measurement_interval=300)
ApiNewWindows ==
    /\ call.op = "none"
    /\ buffers' = TrendAnalyzer(WindowInterval)
    /\ call' = [op |-> "new", n |-> 0, interval |-> WindowInterval,
                sensor |-> "none", value |-> None, result |-> NoTrend,
                fed |-> [s \in SensorNames |-> <<>>]]
    /\ TrendFrame

\* analyzer.add_measurement(sensor_name, value)
ApiAddRecorded(sensor_name, value) ==
    /\ call.op \in {"new", "add", "get"}
    /\ call.n < MaxAdds
    /\ buffers' = add_measurement(buffers, sensor_name, value)
    /\ call' = [call EXCEPT !.op = "add", !.n = @ + 1,
                            !.sensor = sensor_name, !.value = value,
                            !.result = NoTrend,
                            !.fed = IF sensor_name \in SensorNames
                                    THEN [@ EXCEPT ![sensor_name] =
                                             Append(@, value)]
                                    ELSE @]
    /\ TrendFrame

\* analyzer.get_trend_data(sensor_name, current_value): average() and
\* is_full() of the windows are read, nothing is written
ApiGetRecorded(sensor_name, current_value) ==
    /\ call.op \in {"new", "add", "get"}
    /\ call' = [call EXCEPT !.op = "get", !.sensor = sensor_name,
                            !.value = current_value,
                            !.result = get_trend_data(buffers, sensor_name,
                                                      current_value)]
    /\ UNCHANGED buffers
    /\ TrendFrame

WindowNext ==
    \/ ApiNewWindows
    \/ \E name \in CallerSensorNames : \E v \in FedValues(call.n) :
          ApiAddRecorded(name, v)
    \/ \E name \in CallerSensorNames : \E v \in CurrentValues :
          ApiGetRecorded(name, v)

WindowSpec == TrendInit /\ [][WindowNext]_vars

-----------------------------------------------------------------------------
(* The EnhancedDataLogger on its own: built on an SD card that may hold the *)
(* files of earlier runs, then log_data_async called at any time with the   *)
(* data a caller names by column, or with the data control_loop passes.     *)

\* params of config.json: the defaults, and a configuration that rotates
\* at every write and retains two files
LoggerParams ==
    {params, [params EXCEPT !.max_log_file_mb = 0, !.max_log_files = 2]}

\* files left on the card by earlier runs (rows stamped before BootTime)
OldLog(t) == <<HeaderLine, <<"row", t>>>>

Cards ==
    {NoFiles,
     [n \in {CurrentLog} |-> OldLog(3600)],
     [n \in {<<"rotated", 20>>, <<"rotated", 40>>, CurrentLog} |->
         IF n = CurrentLog THEN OldLog(3600) ELSE OldLog(n[2] * 60 - 600)],
     [n \in {<<"rotated", 20>>, <<"rotated", 40>>, <<"rotated", 60>>} |->
         OldLog(n[2] * 60 - 600)]}

\* what control_loop passes: the data and trends of a cycle whose outdoor
\* read is the given one
CycleInput(outdoor) ==
    LET outcome == [n \in SensorNames |->
                       IF n = "innen" THEN <<"ok", <<2000, 5000>>>>
                       ELSE outdoor]
        data == process_sensor_data(
                    read_all_sensors(SensorNames, DefaultCalibrations,
                                     outcome))
    IN  [data |-> data,
         trends |-> update_trends(TrendAnalyzer(params.mess_intervall_sek),
                                  data)[2]]

\* what a caller passes that names the values as log_data_async reads them
\* (the columns of the header): indoor 20.0 degC / 50 %, outdoor as given
CallerInput(t_out, h_out, dp_out) ==
    LET data == [t_in |-> 2000, h_in |-> 5000,
                 dp_in |-> calculate_dew_point(2000, 5000),
                 t_out |-> t_out, h_out |-> h_out, dp_out |-> dp_out]
    IN  [data |-> data,
         trends |-> update_trends(TrendAnalyzer(params.mess_intervall_sek),
                                  data)[2]]

LogInputs ==
    [complete |-> CallerInput(1000, 7000, calculate_dew_point(1000, 7000)),
     dropout  |-> CallerInput(None, None, None),
     cycle    |-> CycleInput(<<"ok", <<1000, 7000>>>>)]

\* seconds between two calls
LOG_CLOCK_STEP == 1800

LogFrame ==
    /\ UNCHANGED <<pc, exc, cycles, cycle_ops, wdt_last_feed, system_status,
                   sensor_data, processed, trend_data, risk_data>>
    /\ UNCHANGED <<buffers, leds, led_risk, display, is_display_on,
                   last_user_activity, alarm>>
    /\ UNCHANGED config_vars
    /\ UNCHANGED task_vars

\* EnhancedDataLogger(pins, params) on a card
ApiNewLogger(p, mounted, card) ==
    /\ call.op = "none"
    /\ logger' = EnhancedDataLogger(p, mounted)
    /\ sd' = init_sd_card(logger', card)
    /\ call' = [op |-> "mount", n |-> 0, card |-> card, data |-> "none",
                write_ok |-> FALSE, raised |-> FALSE]
    /\ UNCHANGED time
    /\ LogFrame

\* await logger.log_data_async(data, trends): one call per cycle of the
\* caller, the clock moving between two calls
ApiLogData(kind, write_ok) ==
    /\ call.op \in {"mount", "tick"}
    /\ LET r == log_data_async(logger, sd, LogInputs[kind].data,
                               LogInputs[kind].trends, time, write_ok)
       IN  /\ logger' = r.logger
           /\ sd' = r.sd
           /\ call' = [call EXCEPT !.op = "log", !.data = kind,
                                   !.write_ok = write_ok,
                                   !.raised = r.raised]
    /\ UNCHANGED time
    /\ LogFrame

\* time passes
ApiLogClock ==
    /\ call.op \in {"mount", "log", "tick"}
    /\ call.n < MaxLogTicks
    /\ time' = time + LOG_CLOCK_STEP
    /\ call' = [call EXCEPT !.op = "tick", !.n = @ + 1]
    /\ UNCHANGED <<logger, sd>>
    /\ LogFrame

LogNext ==
    \/ \E p \in LoggerParams : \E mounted \in BOOLEAN : \E card \in Cards :
          ApiNewLogger(p, mounted, card)
    \/ \E kind \in DOMAIN LogInputs : \E write_ok \in BOOLEAN :
          ApiLogData(kind, write_ok)
    \/ ApiLogClock

LogSpec == TrendInit /\ [][LogNext]_vars

-----------------------------------------------------------------------------
(* The EnhancedDataLogger under a configuration that logs every 30 s and    *)
(* rotates at every write: several rotations fall into one minute of        *)
(* time.localtime().                                                        *)

\* params of a config.json with log_interval_sek 30 and max_log_file_mb 0
RotationParams ==
    [params EXCEPT !.log_interval_sek = 30, !.max_log_file_mb = 0]

\* seconds between two calls: the caller's cycle
SHORT_CLOCK_STEP == 30

ApiShortClock ==
    /\ call.op \in {"mount", "log", "tick"}
    /\ call.n < MaxLogTicks
    /\ time' = time + SHORT_CLOCK_STEP
    /\ call' = [call EXCEPT !.op = "tick", !.n = @ + 1]
    /\ UNCHANGED <<logger, sd>>
    /\ LogFrame

RotationNext ==
    \/ \E mounted \in BOOLEAN : \E card \in Cards :
          ApiNewLogger(RotationParams, mounted, card)
    \/ \E kind \in DOMAIN LogInputs : \E write_ok \in BOOLEAN :
          ApiLogData(kind, write_ok)
    \/ ApiShortClock

RotationSpec == TrendInit /\ [][RotationNext]_vars

-----------------------------------------------------------------------------
(* The SensorCalibrator on its own: built on a configuration file of any    *)
(* content, then set_calibration and apply_calibration called in any order, *)
(* and a new SensorCalibrator built on the file the first one left.         *)

\* what the file at config_path may hold when the calibrator is built
Stores ==
    {NoStore, UnreadableStore, TextStore,
     JsonStore(JsonArray),
     JsonStore(JsonObject([s \in {"innen"} |-> JsonNumber])),
     JsonStore(JsonObject([s \in {"innen"} |->
         JsonObject([k \in {"temp_offset", "humidity_offset"} |->
                        IF k = "temp_offset" THEN 100 ELSE -200])])),
     JsonStore(JsonObject([s \in {"aussen"} |->
         JsonObject([k \in {"temp_offset"} |-> 50])]))}

\* (temp_offset, humidity_offset) passed to set_calibration
Offsets == {<<100, -200>>, <<50, 100>>}

\* sensors the caller calibrates
CalibratedNames == {"innen", "keller"}

\* raw (temperature, humidity) passed to apply_calibration
RawReadings == {<<2000, 5000>>, <<2000, 100>>, <<2000, 9950>>}

SaveOutcomes == {"ok", "open_fails", "write_fails"}

\* no set_calibration for any sensor since the calibrator was built
NoSets ==
    [s \in CallerSensorNames |->
        [done |-> FALSE, temp_offset |-> 0, humidity_offset |-> 0,
         outcome |-> "none"]]

CalFrame ==
    /\ UNCHANGED <<pc, exc, cycles, cycle_ops, time, wdt_last_feed,
                   system_status, sensor_data, processed, trend_data,
                   risk_data>>
    /\ UNCHANGED hw_vars
    /\ UNCHANGED task_vars
    /\ UNCHANGED sensors

\* SensorCalibrator(config_path) on a path that holds store
NewCalibrator(store) ==
    /\ cal_file' = store
    /\ calibrations' = load_calibrations(store).calibrations
    /\ call' = [op |-> "new", sensor |-> "none", reading |-> <<0, 0>>,
                result |-> <<0, 0>>, outcome |-> "none",
                raised |-> load_calibrations(store).raised, sets |-> NoSets]
    /\ CalFrame

\* the first calibrator, on any file
ApiNewCalibrator(store) ==
    /\ call.op = "none"
    /\ NewCalibrator(store)

\* a new calibrator on the file the calibrator before it left
ApiReloadCalibrator ==
    /\ call.op \in {"new", "set", "apply"}
    /\ NewCalibrator(cal_file)

\* calibrator.set_calibration(sensor_name, temp_offset, humidity_offset)
ApiSetCalibration(sensor_name, offsets, outcome) ==
    /\ call.op \in {"new", "set", "apply"} /\ ~call.raised
    /\ LET r == set_calibration(calibrations, cal_file, sensor_name,
                                offsets[1], offsets[2], outcome)
       IN  /\ calibrations' = r.calibrations
           /\ cal_file' = r.store
    /\ call' = [call EXCEPT !.op = "set", !.sensor = sensor_name,
                            !.outcome = outcome,
                            !.sets[sensor_name] =
                                [done |-> TRUE, temp_offset |-> offsets[1],
                                 humidity_offset |-> offsets[2],
                                 outcome |-> outcome]]
    /\ CalFrame

\* calibrator.apply_calibration(sensor_name, temp, humidity)
ApiApplyCalibration(sensor_name, reading) ==
    /\ call.op \in {"new", "set", "apply"} /\ ~call.raised
    /\ call' = [call EXCEPT !.op = "apply", !.sensor = sensor_name,
                            !.reading = reading,
                            !.result = apply_calibration(calibrations,
                                           sensor_name, reading[1],
                                           reading[2])]
    /\ UNCHANGED <<calibrations, cal_file>>
    /\ CalFrame

CalNext ==
    \/ \E store \in Stores : ApiNewCalibrator(store)
    \/ ApiReloadCalibrator
    \/ \E sensor_name \in CalibratedNames : \E offsets \in Offsets :
       \E outcome \in SaveOutcomes :
          ApiSetCalibration(sensor_name, offsets, outcome)
    \/ \E sensor_name \in CallerSensorNames : \E reading \in RawReadings :
          ApiApplyCalibration(sensor_name, reading)

CalSpec == TrendInit /\ [][CalNext]_vars

-----------------------------------------------------------------------------
(* The TaupunktCalculator on its own: its two static methods called with    *)
(* any arguments, calculate_dew_point in both versions of the repository.   *)

\* indoor dew points, outdoor temperatures and thresholds passed to
\* evaluate_condensation_risk
DewPoints == {1000, 925, NaN}

OutdoorTemps == {1500, 1300, 1250, 1200, 1100, 1000, 900, NaN}

Thresholds == {200, 0, 300}

\* (temperature, humidity) passed to calculate_dew_point: readings with a
\* humidity in range, humidities out of range at any temperature, and the
\* temperature at which b + temp = 0
DewPointInputs ==
    {<<2000, 5000>>, <<2000, 6200>>, <<1000, 7000>>, <<1500, 7000>>}
    \cup ({2000, 2500, 1000, -23770} \X {0, -100, 10001, 15000})
    \cup {<<-23770, 5000>>, <<-23770, 10000>>}

CalcFrame ==
    /\ UNCHANGED loop_vars
    /\ UNCHANGED hw_vars
    /\ UNCHANGED config_vars
    /\ UNCHANGED task_vars

\* TaupunktCalculator.evaluate_condensation_risk(indoor_dp, outdoor_temp,
\* threshold)
ApiEvaluateRisk(indoor_dp, outdoor_temp, threshold) ==
    /\ call' = [op |-> "risk", indoor_dp |-> indoor_dp,
                outdoor_temp |-> outdoor_temp, threshold |-> threshold,
                result |-> evaluate_condensation_risk(indoor_dp,
                               outdoor_temp, threshold)]
    /\ CalcFrame

\* TaupunktCalculator.calculate_dew_point(temp, humidity) of src/main.py
ApiDewPoint(temp, humidity) ==
    /\ call' = [op |-> "dew_point", temp |-> temp, humidity |-> humidity,
                result |-> [value |-> calculate_dew_point(temp, humidity),
                            exception |-> "none"]]
    /\ CalcFrame

\* TaupunktCalculator.calculate_dew_point(temp, humidity) of
\* src/lib/core/calc.py
ApiCalcDewPoint(temp, humidity) ==
    /\ call' = [op |-> "calc_dew_point", temp |-> temp,
                humidity |-> humidity,
                result |-> calc_calculate_dew_point(temp, humidity)]
    /\ CalcFrame

CalcNext ==
    \/ \E indoor_dp \in DewPoints : \E outdoor_temp \in OutdoorTemps :
       \E threshold \in Thresholds :
          ApiEvaluateRisk(indoor_dp, outdoor_temp, threshold)
    \/ \E input \in DewPointInputs : ApiDewPoint(input[1], input[2])
    \/ \E input \in DewPointInputs : ApiCalcDewPoint(input[1], input[2])

CalcSpec == TrendInit /\ [][CalcNext]_vars

-----------------------------------------------------------------------------
(* Properties *)

Missing(data) == get(data, "t_in") = None \/ get(data, "t_out") = None

AlarmEvaluation == pc = "alarms" /\ pc' = "timeout"

C2_MissingEndsSensorFailure ==
    [][(AlarmEvaluation /\ Missing(processed))
          => (alarm'.is_alarm_active
              /\ alarm'.alarm_type = "sensor_failure")]_vars

\* the alarm evaluation of the second cycle, one temperature missing, has
\* just raised sensor_failure
C2_Witness ==
    /\ pc = "timeout"
    /\ Missing(processed)
    /\ alarm.is_alarm_active
    /\ alarm.alarm_type = "sensor_failure"
    /\ alarm.alarm_start_time = time
    /\ cycles = 2

\* C3: trigger_alarm(k) while the alarm is already active with kind k
\* changes neither is_alarm_active, alarm_type, alarm_start_time nor the
\* buzzer frequency and duty, and sends the buzzer no command.
C3_TriggerSameKindNoOp ==
    [][\A k \in AlarmKinds :
          (ApiTrigger(k) /\ alarm.is_alarm_active /\ alarm.alarm_type = k)
             => /\ alarm'.is_alarm_active = alarm.is_alarm_active
                /\ alarm'.alarm_type = alarm.alarm_type
                /\ alarm'.alarm_start_time = alarm.alarm_start_time
                /\ alarm'.buzzer_freq = alarm.buzzer_freq
                /\ alarm'.buzzer_duty = alarm.buzzer_duty
                /\ alarm'.cmds = 0]_vars

\* a condensation alarm raised earlier, after a repeated trigger: still
\* sounding, started in the past, and the last call sent no command
C3_Witness ==
    /\ alarm.buzzer
    /\ alarm.is_alarm_active
    /\ alarm.alarm_type = "condensation"
    /\ alarm.alarm_start_time < time
    /\ alarm.buzzer_duty = 32768
    /\ alarm.cmds = 0

\* C4: stop_alarm, from any state of the controller, leaves it idle
\* (is_alarm_active = False, alarm_type = None) with the buzzer duty 0.
C4_StopLeavesIdleSilent ==
    [][ApiStop => /\ ~alarm'.is_alarm_active
                  /\ alarm'.alarm_type = AlarmNone
                  /\ alarm'.buzzer_duty = 0]_vars

\* a sensor_failure alarm has been stopped: idle, silent, tone still 2500 Hz
C4_Witness ==
    /\ alarm.buzzer
    /\ ~alarm.is_alarm_active
    /\ alarm.alarm_type = AlarmNone
    /\ alarm.buzzer_freq = 2500
    /\ alarm.buzzer_duty = 0
    /\ alarm.cmds = 1

ToneFreq(k) ==
    CASE k = "condensation" -> 1500
      [] k = "sensor_failure" -> 2500
      [] OTHER -> 2000

ToneDuty(k) ==
    CASE k = "sensor_failure" -> 16384
      [] OTHER -> 32768

\* C5: trigger_alarm(k) from idle, or while active with another kind, makes
\* the alarm Active(k), sets alarm_start_time to the current time and applies
\* k's tone; the alarm state changes in no other way than this and stop_alarm.
C5_TriggerTransitions ==
    [][/\ \A k \in AlarmKinds :
            (ApiTrigger(k) /\ ~(alarm.is_alarm_active /\ alarm.alarm_type = k))
               => /\ alarm'.is_alarm_active
                  /\ alarm'.alarm_type = k
                  /\ alarm'.alarm_start_time = time
                  /\ alarm.buzzer => /\ alarm'.buzzer_freq = ToneFreq(k)
                                     /\ alarm'.buzzer_duty = ToneDuty(k)
       /\ (<<alarm'.is_alarm_active, alarm'.alarm_type>>
              # <<alarm.is_alarm_active, alarm.alarm_type>>)
             => \/ ~alarm'.is_alarm_active /\ alarm'.alarm_type = AlarmNone
                \/ /\ alarm'.is_alarm_active
                   /\ alarm'.alarm_type \in AlarmKinds
                   /\ alarm'.alarm_start_time = time]_vars

\* a sensor_failure alarm that replaced an older alarm of another kind
\* is impossible to tell from the state alone; the tone and the fresh
\* start time after at least one tick show a trigger that took effect late
C5_Witness ==
    /\ alarm.buzzer
    /\ alarm.is_alarm_active
    /\ alarm.alarm_type = "sensor_failure"
    /\ alarm.alarm_start_time = time
    /\ time > BootTime
    /\ alarm.buzzer_freq = 2500
    /\ alarm.buzzer_duty = 16384

ExpectedLed(level) ==
    CASE level = "ok" -> "gruen"
      [] level = "warning" -> "gelb"
      [] level = "critical" -> "rot"
      [] OTHER -> "gelb"

LedUpdated == {"display", "alarms", "timeout", "log", "gc", "sleep"}

\* C6: from the first indicator update on exactly one LED is lit, the one
\* of the risk level last passed to the update (ok green, warning yellow,
\* critical red, anything else yellow); after the update of a cycle that
\* level is the cycle's risk level.
C6_ExactlyOneLed ==
    /\ led_risk # "None" => {l \in LedNames : leds[l]} = {ExpectedLed(led_risk)}
    /\ pc \in LedUpdated => led_risk = risk_data.risk_level

\* second cycle, after its indicator update, level ok: green only
C6_Witness ==
    /\ pc = "alarms"
    /\ cycles = 2
    /\ led_risk = "ok"
    /\ leds["gruen"] /\ ~leds["rot"] /\ ~leds["gelb"]

\* C7: an exception in the cycle body is caught: system_status becomes
\* 'error', the loop waits the fixed backoff and goes on with the watchdog
\* feed of a new cycle; the loop never ends, and while the cycle bound of the
\* model is not exhausted the feed of the new cycle eventually happens.
C7_FaultBackoffRetry ==
    /\ [][pc = "except" => (pc' = "except"
                            \/ (pc' = "backoff" /\ system_status' = "error"))]_vars
    /\ [][pc = "backoff" => (pc' = "backoff"
                             \/ (pc' = "feed" /\ time' = time + BACKOFF_SEK))]_vars
    /\ [](pc # "done")
    /\ []((pc = "except" /\ cycles < MaxCycles)
             => <>(pc = "read" /\ cycle_ops = <<"feed">>
                   /\ system_status = "error"))

\* a cycle started, and fed the watchdog, after a fault
C7_Witness ==
    /\ pc = "read"
    /\ cycle_ops = <<"feed">>
    /\ system_status = "error"
    /\ exc = "none"
    /\ cycles = 2

\* C8: in every cycle the watchdog feed is the first operation: whatever
\* the cycle has executed so far starts with the feed, and no step of the
\* cycle body is reached without it.
C8_FeedFirst ==
    /\ cycle_ops # <<>> => Head(cycle_ops) = "feed"
    /\ \A i \in 2..Len(cycle_ops) : cycle_ops[i] # "feed"
    /\ pc \in TryBody \cup {"sleep"} => cycle_ops # <<>>

\* the second cycle, started after the fault backoff, ran to its end
C8_Witness ==
    /\ pc = "sleep"
    /\ cycles = 2
    /\ system_status = "error"
    /\ Len(cycle_ops) = 11
    /\ Head(cycle_ops) = "feed"

\* C9: a sensor dropout is not fatal for the cycle: with a temperature
\* missing, logging raises nothing, the cycle goes on past the log step and
\* system_status is not degraded.
C9_DropoutNonFatal ==
    [][(pc = "log" /\ Missing(processed) /\ exc' # "collaborator")
          => (pc' \in {"log", "gc"} /\ system_status' = system_status)]_vars

RiskComputed == {"led", "display", "alarms", "timeout", "log", "gc", "sleep"}

Absent(x) == x = None \/ x = NaN

\* C10: the risk level of a cycle is 'unknown' exactly when the indoor dew
\* point or the outdoor temperature is missing or NaN, and one of ok,
\* warning, critical otherwise.
C10_UnknownIffMissing ==
    pc \in RiskComputed =>
        /\ risk_data.risk_level \in {"ok", "warning", "critical", "unknown"}
        /\ risk_data.risk_level = "unknown"
              <=> (Absent(get(processed, "dp_in"))
                   \/ Absent(get(processed, "t_out")))

\* both sensors answered, the indoor dew point is NaN (humidity 0)
C10_Witness ==
    /\ pc = "led"
    /\ get(processed, "t_in") # None
    /\ get(processed, "t_out") # None
    /\ get(processed, "dp_in") = NaN
    /\ risk_data.risk_level = "unknown"

-----------------------------------------------------------------------------
(* C11: every run of the wake-up handler, whatever the control loop is      *)
(* doing, ends with the activity timestamp set to the current time, the     *)
(* display powered (backlight on and is_display_on) and, if an alarm was    *)
(* active, the alarm idle and the buzzer silent.                            *)
C11_WakeupPostcondition ==
    [][handle_wakeup =>
          /\ last_user_activity' = time
          /\ is_display_on' /\ display'.is_on
          /\ alarm.is_alarm_active =>
                /\ ~alarm'.is_alarm_active
                /\ alarm'.alarm_type = AlarmNone
                /\ alarm'.buzzer_duty = 0]_vars

-----------------------------------------------------------------------------
(* C12: the wake-up handler may run between any two statements of the       *)
(* cycle; whenever the control loop is outside trigger_alarm (the handler   *)
(* and the interrupted call have finished), is_alarm_active is true         *)
(* exactly when alarm_type is not None.                                     *)
C12_AlarmStateConsistent ==
    pc \notin InTriggerAlarm =>
        (alarm.is_alarm_active <=> alarm.alarm_type # AlarmNone)

-----------------------------------------------------------------------------
(* C13: however run_system ends (an exception leaving a task, Ctrl-C), the  *)
(* run ends with the alarm idle, the buzzer silent and the backlight off,   *)
(* and after the end the alarm pattern task takes no further step.          *)
RunEnds == pc # "done" /\ pc' = "done"

C13_ShutdownCleansUp ==
    /\ [][RunEnds =>
             /\ ~alarm'.is_alarm_active
             /\ alarm'.alarm_type = AlarmNone
             /\ alarm'.buzzer_duty = 0
             /\ ~display'.is_on]_vars
    /\ [][pc = "done" => pattern' = pattern]_vars

-----------------------------------------------------------------------------
(* C14: the alarm pattern task switches the buzzer on, sleeps 500 ms,       *)
(* switches it off, sleeps 500 ms and tests again, for as long as           *)
(* sensor_failure is the active alarm; it gives the buzzer a command only   *)
(* while the alarm is active with kind sensor_failure.                      *)
PatternCommand ==
    /\ pattern.at \in {"on", "sleep_on"}
    /\ pattern'.at \in {"sleep_on", "sleep_off"}
    /\ pattern'.at # pattern.at
    /\ alarm.buzzer

SensorFailureActive(a) ==
    a.is_alarm_active /\ a.alarm_type = "sensor_failure"

C14_PatternOnlyForSensorFailure ==
    /\ [][PatternCommand => SensorFailureActive(alarm)]_vars
    /\ [][pattern.at = "sleep_on" /\ pattern'.at = "sleep_off" =>
             pattern'.slept = 500 /\ alarm'.buzzer_duty = 0]_vars
    /\ [][pattern.at = "sleep_off" /\ pattern'.at # "sleep_off"
          /\ pc' # "done" =>
             /\ pattern'.slept = 500
             /\ SensorFailureActive(alarm) => pattern'.at = "on"]_vars
    /\ [][pattern.at = "on" /\ pattern'.at = "sleep_on" /\ alarm.buzzer =>
             alarm'.buzzer_duty = 32768]_vars

-----------------------------------------------------------------------------
(* C15: every trend window has capacity max(1, horizon // interval) and     *)
(* never holds more samples than that; is_full holds exactly when it holds  *)
(* that many; an add to a full window drops the oldest sample and appends   *)
(* the new one, an add to any other window only appends.                    *)
Capacity(h, interval) == Max(1, HorizonSeconds(h) \div interval)

AddStep == call'.op = "add" /\ call'.n = call.n + 1

C15_WindowNeverExceedsCapacity ==
    /\ [](call.op # "none" =>
            \A s \in SensorNames : \A h \in Horizons :
                LET b == buffers[s][h]
                    capacity == Capacity(h, call.interval)
                IN  /\ b.size = capacity
                    /\ Len(b.data) <= capacity
                    /\ RingBuffer_is_full(b) <=> Len(b.data) = capacity)
    /\ [][AddStep /\ call'.sensor \in SensorNames =>
            \A h \in Horizons :
                LET old == buffers[call'.sensor][h].data
                    new == buffers'[call'.sensor][h].data
                IN  IF Len(old) = Capacity(h, call.interval)
                    THEN new = Append(Tail(old), call'.value)
                    ELSE new = Append(old, call'.value)]_vars

\* the 1h window of a 900 s analyzer after five samples: the first is gone
C15_Witness ==
    /\ call.op = "add" /\ call.sensor = "innen" /\ call.n = 5
    /\ call.interval = 900
    /\ buffers["innen"]["1h"].data = <<2100, 2200, 2300, 2400>>
    /\ Len(buffers["innen"]["5min"].data) = 1

-----------------------------------------------------------------------------
(* C16: for a known sensor get_trend_data answers 'initializing' while the  *)
(* 5-minute window is not full, else 'rising' if current > avg5 + 0.5,      *)
(* 'falling' if current < avg5 - 0.5, else 'stable', avg5 being the mean of *)
(* the window (0.0 when empty); after 20, 21, 22, 23, 24 in a window of     *)
(* five, current 24 is 'rising' with avg_5min > 20.                         *)
ExpectedTrend(window, capacity, current) ==
    LET n == Len(window)
        total == SumSeq(window)
    IN  IF n < capacity THEN "initializing"
        ELSE IF n * current > total + n * 50 THEN "rising"
        ELSE IF n * current < total - n * 50 THEN "falling"
        ELSE "stable"

C16_TrendLabel ==
    call.op = "get" /\ call.sensor \in SensorNames =>
        LET window == buffers[call.sensor]["5min"].data
        IN  /\ call.result.trend =
                  ExpectedTrend(window, Capacity("5min", call.interval),
                                call.value)
            /\ call.result.current = call.value
            /\ window = <<>> => call.result.avg_5min = 0
            /\ window # <<>> =>
                  /\ call.result.avg_5min * Len(window) <= SumSeq(window)
                  /\ (call.result.avg_5min + 1) * Len(window)
                        > SumSeq(window)
            /\ window = <<2000, 2100, 2200, 2300, 2400>>
               /\ call.value = 2400 =>
                  call.result.trend = "rising" /\ call.result.avg_5min > 2000

\* test_trend_computation's case
C16_Witness ==
    /\ call.op = "get" /\ call.sensor = "innen" /\ call.value = 2400
    /\ call.interval = 60
    /\ buffers["innen"]["5min"].data = <<2000, 2100, 2200, 2300, 2400>>
    /\ call.result.trend = "rising"

-----------------------------------------------------------------------------
(* C17: add_measurement with a sensor name the analyzer does not know       *)
(* changes no window; get_trend_data with such a name answers               *)
(* (current, current, current, 'stable').                                   *)
C17_UnknownSensorIgnored ==
    /\ [][AddStep /\ call'.sensor \notin SensorNames =>
            buffers' = buffers]_vars
    /\ [](call.op = "get" /\ call.sensor \notin SensorNames =>
            call.result = TrendData(call.value, call.value, call.value,
                                    "stable"))

C17_Witness ==
    /\ call.op = "get" /\ call.sensor = "keller" /\ call.n > 0
    /\ call.result.trend = "stable"
    /\ buffers["innen"]["5min"].data # <<>>

-----------------------------------------------------------------------------
(* C18: log_data_async changes neither last_log_time nor any file when the  *)
(* card is not mounted or less than log_interval_sek has passed since the   *)
(* last successful write; last_log_time changes only in a call that writes  *)
(* the record; any two records this logger has written are at least         *)
(* log_interval_sek apart.                                                  *)
LogCall == call'.op = "log"

LogDue(lg, now) ==
    lg.is_mounted /\ now - lg.last_log_time >= lg.log_interval_sek

\* the time stamps of the rows written since boot, in all files
RowsWritten ==
    {l[2] : l \in UNION {{sd[n][i] : i \in 1..Len(sd[n])} : n \in DOMAIN sd}}
        \ {t \in 0..BootTime - 1 : TRUE}

C18_LogRateLimited ==
    /\ [][LogCall /\ ~LogDue(logger, time) =>
             logger' = logger /\ sd' = sd]_vars
    /\ [][LogCall /\ logger'.last_log_time # logger.last_log_time =>
             /\ call'.write_ok /\ ~call'.raised
             /\ logger'.last_log_time = time
             /\ sd'[CurrentLog][Len(sd'[CurrentLog])] = <<"row", time>>]_vars
    /\ [](call.op \in {"log", "tick"} =>
             \A t1 \in RowsWritten : \A t2 \in RowsWritten :
                 t1 < t2 => t2 - t1 >= logger.log_interval_sek)

\* two records in the active file, an hour apart, after a call that came
\* too early
C18_Witness ==
    /\ call.op = "log" /\ call.n = 2
    /\ logger.last_log_time = BootTime + 3600
    /\ CurrentLog \in DOMAIN sd
    /\ Len(sd[CurrentLog]) >= 3
    /\ sd[CurrentLog][Len(sd[CurrentLog])] = <<"row", BootTime + 3600>>
    /\ sd[CurrentLog][Len(sd[CurrentLog]) - 1] = <<"row", BootTime>>

-----------------------------------------------------------------------------
(* C19: a log call that is due while the active file is larger than         *)
(* max_file_size rotates exactly once before the write: the active file is  *)
(* renamed to the name stamped with the time, a new active file starts      *)
(* with the header, and the record is its next line (unless the storage     *)
(* refuses the write); a call with the file within the limit rotates        *)
(* nothing.                                                                 *)
Oversized(lg, files) ==
    CurrentLog \in DOMAIN files /\ FileSize(files[CurrentLog]) > lg.max_file_size

Stamped(now) == <<"rotated", now \div 60>>

C19_RotationBeforeWrite ==
    [][LogCall /\ LogDue(logger, time) =>
          IF Oversized(logger, sd)
          THEN /\ DOMAIN sd' = DOMAIN sd \cup {Stamped(time)}
               /\ sd'[Stamped(time)] = sd[CurrentLog]
               /\ \A n \in DOMAIN sd \ {CurrentLog, Stamped(time)} :
                     sd'[n] = sd[n]
               /\ sd'[CurrentLog] =
                     IF call'.write_ok
                     THEN <<HeaderLine, <<"row", time>>>>
                     ELSE <<HeaderLine>>
          ELSE /\ DOMAIN sd' = DOMAIN sd \cup {CurrentLog}
               /\ \A n \in DOMAIN sd \ {CurrentLog} : sd'[n] = sd[n]]_vars

-----------------------------------------------------------------------------
(* C20: whenever the logger has been created or called, the card holds at   *)
(* most max_files rotated log files, and every file the logger removes is   *)
(* older by name than every rotated file it keeps.                          *)
Rotated(files) == {n \in DOMAIN files : n[1] = "rotated"}

C20_RetentionEnforced ==
    /\ [](call.op \in {"mount", "log", "tick"} /\ logger.is_mounted =>
             Cardinality(Rotated(sd)) <= logger.max_files)
    /\ [][call'.op = "mount" =>
             \A gone \in Rotated(call'.card) \ Rotated(sd') :
                 \A kept \in Rotated(sd') : NameLess(gone, kept)]_vars
    /\ [][LogCall =>
             \A gone \in Rotated(sd) \ Rotated(sd') :
                 \A kept \in Rotated(sd') : NameLess(gone, kept)]_vars

-----------------------------------------------------------------------------
(* C21: a log call whose write the storage refuses returns normally (no     *)
(* exception leaves log_data_async), leaves last_log_time unchanged, so     *)
(* that the next call is due again, and loses no record that was on the     *)
(* card before: only the record of this call is missing.                    *)
RowsOn(files) ==
    {l \in UNION {{files[n][i] : i \in 1..Len(files[n])} : n \in DOMAIN files} :
        l[1] = "row"}

\* a due call whose row is formatted and whose write fails
FailedWrite ==
    /\ LogCall
    /\ LogDue(logger, time)
    /\ ~call'.write_ok
    /\ ~log_line_raises(LogInputs[call'.data].data, LogInputs[call'.data].trends)

C21_WriteFailureNonFatal ==
    [][FailedWrite =>
          /\ ~call'.raised
          /\ logger'.last_log_time = logger.last_log_time
          /\ LogDue(logger', time')
          /\ RowsOn(sd') = RowsOn(sd)]_vars

\* one record written at boot; the write of the call an hour later failed
C21_Witness ==
    /\ call.op = "log"
    /\ call.data = "complete"
    /\ ~call.write_ok /\ ~call.raised
    /\ logger.is_mounted
    /\ logger.last_log_time = BootTime
    /\ time = BootTime + 3600
    /\ <<"row", BootTime>> \in RowsOn(sd)
    /\ <<"row", time>> \notin RowsOn(sd)

-----------------------------------------------------------------------------
(* C22: apply_calibration(sensor, temp, hum) returns temp plus the sensor's *)
(* stored temperature offset and hum plus its humidity offset clamped to    *)
(* 0..100; a sensor without an entry gets the offsets (0, 0) and no error;  *)
(* the humidity returned is always within 0..100; with the offsets          *)
(* (1.0, -2.0) the reading (20.0, 50.0) becomes (21.0, 48.0).               *)
Clamp(x) == IF x < 0 THEN 0 ELSE IF x > 10000 THEN 10000 ELSE x

StoredOffsets(s) ==
    IF s \in DOMAIN calibrations
    THEN <<calibrations[s].temp_offset, calibrations[s].humidity_offset>>
    ELSE <<0, 0>>

C22_ApplyCalibration ==
    call.op = "apply" =>
        /\ call.result[1] = call.reading[1] + StoredOffsets(call.sensor)[1]
        /\ call.result[2] =
              Clamp(call.reading[2] + StoredOffsets(call.sensor)[2])
        /\ call.result[2] >= 0 /\ call.result[2] <= 10000
        /\ (StoredOffsets(call.sensor) = <<100, -200>>
              /\ call.reading = <<2000, 5000>>)
                 => call.result = <<2100, 4800>>

\* offsets (1.0, -2.0) loaded from the file, applied to 1 % humidity: the
\* result is clamped to 0
C22_Witness ==
    /\ call.op = "apply"
    /\ call.sensor = "innen"
    /\ StoredOffsets("innen") = <<100, -200>>
    /\ call.reading = <<2000, 100>>
    /\ call.result = <<2100, 0>>

-----------------------------------------------------------------------------
(* C23: after set_calibration(s, a, b) the table holds (a, b) for s and     *)
(* what it held for every other sensor; when the save succeeds the file is  *)
(* a document with exactly the sensors of the table and their offsets; a    *)
(* new SensorCalibrator built on that file holds the same table.            *)
SetCall == call'.op = "set"

\* the offsets of each sensor as the document states them
DocumentOffsets(store) ==
    [s \in DOMAIN store.value.items |->
        <<store.value.items[s].items["temp_offset"],
          store.value.items[s].items["humidity_offset"]>>]

TableOffsets(cals) ==
    [s \in DOMAIN cals |-> <<cals[s].temp_offset, cals[s].humidity_offset>>]

C23_CalibrationRoundTrip ==
    /\ [][SetCall =>
             /\ DOMAIN calibrations' = DOMAIN calibrations \cup {call'.sensor}
             /\ TableOffsets(calibrations')[call'.sensor] =
                   <<call'.sets[call'.sensor].temp_offset,
                     call'.sets[call'.sensor].humidity_offset>>
             /\ \A s \in DOMAIN calibrations \ {call'.sensor} :
                   calibrations'[s] = calibrations[s]]_vars
    /\ [][SetCall /\ call'.outcome = "ok" =>
             /\ cal_file'.kind = "json"
             /\ cal_file'.value.type = "object"
             /\ DocumentOffsets(cal_file') = TableOffsets(calibrations')]_vars
    /\ [][call.op = "set" /\ call.outcome = "ok" /\ call'.op = "new" =>
             /\ ~call'.raised
             /\ calibrations' = calibrations]_vars

\* a calibrator just built on a file that an earlier one saved: it holds
\* the offsets that one was given for 'keller' and those it had loaded
C23_Witness ==
    /\ call.op = "new" /\ ~call.raised
    /\ cal_file.kind = "json"
    /\ DOMAIN calibrations = {"innen", "keller"}
    /\ TableOffsets(calibrations)["keller"] = <<50, 100>>
    /\ TableOffsets(calibrations)["innen"] = <<100, -200>>

-----------------------------------------------------------------------------
(* C24: when the save inside set_calibration fails (the file cannot be      *)
(* opened, or the write breaks off), set_calibration still returns          *)
(* normally with the new offsets in the table, and every later              *)
(* apply_calibration for that sensor on this calibrator uses them.          *)
C24_SaveFailureKeepsOffsets ==
    /\ [][SetCall /\ call'.outcome # "ok" =>
             /\ ~call'.raised
             /\ call'.sensor \in DOMAIN calibrations'
             /\ TableOffsets(calibrations')[call'.sensor] =
                   <<call'.sets[call'.sensor].temp_offset,
                     call'.sets[call'.sensor].humidity_offset>>]_vars
    /\ [](call.op = "apply" /\ call.sets[call.sensor].done
             /\ call.sets[call.sensor].outcome # "ok" =>
                /\ call.result[1] =
                      call.reading[1] + call.sets[call.sensor].temp_offset
                /\ call.result[2] =
                      Clamp(call.reading[2]
                            + call.sets[call.sensor].humidity_offset))

\* the write of the offsets (0.5, 1.0) for 'keller' broke off and left no
\* document; 99.5 % humidity is still corrected (and clamped to 100)
C24_Witness ==
    /\ call.op = "apply"
    /\ call.sensor = "keller"
    /\ call.sets["keller"].outcome = "write_fails"
    /\ cal_file.kind = "text"
    /\ call.reading = <<2000, 9950>>
    /\ call.result = <<2050, 10000>>

-----------------------------------------------------------------------------
(* C25: building a SensorCalibrator never fails: when the file is missing,  *)
(* unreadable, no JSON document, a document that is no object, or has an    *)
(* entry that is no object, the calibrator holds the default table, in      *)
(* which 'innen' and 'aussen' have the offsets (0.0, 0.0).                  *)
WellFormed(store) ==
    /\ store.kind = "json"
    /\ store.value.type = "object"
    /\ \A s \in DOMAIN store.value.items :
          store.value.items[s].type = "object"

C25_LoadNeverFails ==
    call.op = "new" =>
        /\ ~call.raised
        /\ ~WellFormed(cal_file) =>
              /\ DOMAIN calibrations = SensorNames
              /\ \A s \in SensorNames :
                    TableOffsets(calibrations)[s] = <<0, 0>>

-----------------------------------------------------------------------------
(* C26: evaluate_condensation_risk(dp, t_out, th), with diff = t_out - dp,  *)
(* returns 'unknown' when dp or t_out is NaN; otherwise 'ok' exactly when   *)
(* diff > th + 1.0, 'warning' exactly when th < diff <= th + 1.0 and        *)
(* 'critical' exactly when diff <= th, with one message for                 *)
(* 0 < diff <= th and another for diff <= 0.  With th = 2.0 and dp = 10.0,  *)
(* t_out 15.0 is ok, 12.5 warning, 11.0 and 10.0 critical.                  *)
RiskCall == call.op = "risk"

Diff == call.outdoor_temp - call.indoor_dp

C26_RiskLevels ==
    RiskCall =>
        IF call.indoor_dp = NaN \/ call.outdoor_temp = NaN
        THEN call.result[1] = "unknown"
        ELSE /\ call.result[1] \in {"ok", "warning", "critical"}
             /\ call.result[1] = "ok" <=> Diff > call.threshold + 100
             /\ call.result[1] = "warning"
                   <=> (call.threshold < Diff /\ Diff <= call.threshold + 100)
             /\ call.result[1] = "critical" <=> Diff <= call.threshold
             /\ (0 < Diff /\ Diff <= call.threshold)
                   => call.result[2] = "Hohes Kondensationsrisiko!"
             /\ Diff <= 0 => call.result[2] = "KONDENSATION MOEGLICH!"
             /\ (call.threshold = 200 /\ call.indoor_dp = 1000) =>
                   /\ call.outdoor_temp = 1500 => call.result[1] = "ok"
                   /\ call.outdoor_temp = 1250 => call.result[1] = "warning"
                   /\ call.outdoor_temp \in {1100, 1000}
                         => call.result[1] = "critical"

\* a difference of exactly th + 1.0 (13.0 - 10.0 with th = 2.0) is still a
\* warning
C26_Witness ==
    /\ RiskCall
    /\ call.indoor_dp = 1000 /\ call.outdoor_temp = 1300
    /\ call.threshold = 200
    /\ call.result = <<"warning", "Erhoehte Aufmerksamkeit">>

-----------------------------------------------------------------------------
(* C27: calculate_dew_point raises nothing: it returns NaN at every         *)
(* temperature when the humidity is <= 0 or > 100, and NaN as well when     *)
(* the formula has a zero denominator (b + temp = 0).                       *)
DewPointCall == call.op \in {"dew_point", "calc_dew_point"}

C27_DewPointNeverRaises ==
    DewPointCall =>
        /\ call.result.exception = "none"
        /\ (call.humidity <= 0 \/ call.humidity > 10000)
              => call.result.value = NaN
        /\ MagnusSingular(call.temp) => call.result.value = NaN

-----------------------------------------------------------------------------
(* C28: _check_display_timeout switches the backlight off and clears        *)
(* is_display_on exactly when the display is on and more than               *)
(* display_timeout_sek have passed since the last user activity, and        *)
(* changes neither otherwise; the backlight and is_display_on go from off   *)
(* to on only in the wake-up handler.                                       *)
TimeoutCheck == pc = "timeout" /\ pc' = "log"

TimedOut ==
    is_display_on /\ time - last_user_activity > params.display_timeout_sek

C28_DisplayTimeout ==
    /\ [][TimeoutCheck =>
             IF TimedOut
             THEN ~display'.is_on /\ ~is_display_on'
             ELSE display' = display /\ is_display_on' = is_display_on]_vars
    /\ [][(is_display_on' /\ ~is_display_on) \/ (display'.is_on /\ ~display.is_on)
             => handle_wakeup]_vars

\* the check of the second cycle, 900 s after boot with no key pressed,
\* has switched the display off
C28_Witness ==
    /\ pc = "log"
    /\ cycles = 2
    /\ time = BootTime + params.mess_intervall_sek
    /\ last_user_activity = BootTime
    /\ ~is_display_on /\ ~display.is_on

-----------------------------------------------------------------------------
(* C29: with the wake-up handler running between any two statements of      *)
(* _check_display_timeout, the display is off (backlight off or             *)
(* is_display_on cleared) only while more than display_timeout_sek have     *)
(* passed since the most recent user activity.                              *)
DisplayOff == ~display.is_on \/ ~is_display_on

WithinTimeout == time - last_user_activity <= params.display_timeout_sek

C29_NoLostWake == DisplayOff => ~WithinTimeout

-----------------------------------------------------------------------------
(* C30: in the trend step of a cycle, a sensor whose temperature is missing *)
(* keeps every trend window as it was, and a sensor whose temperature is    *)
(* present gets exactly that calibrated temperature appended once to each   *)
(* of its windows (the oldest sample leaving a full window), and its trend  *)
(* is classified on the windows after the append.                           *)
TrendsStep == pc = "trends" /\ pc' = "risks"

\* the calibrated temperature the cycle read for the sensor, None if missing
CycleTemperature(s) ==
    IF sensor_data[s].present /\ sensor_data[s].valid
    THEN sensor_data[s].temp ELSE None

OneAppended(old, new, value) ==
    /\ new.size = old.size
    /\ new.data = IF Len(old.data) < old.size
                  THEN old.data \o <<value>>
                  ELSE SubSeq(old.data, 2, Len(old.data)) \o <<value>>

TrendKey(s) == IF s = "innen" THEN "in" ELSE "out"

C30_OnlyValidSamples ==
    [][TrendsStep =>
          \A s \in SensorNames :
              IF CycleTemperature(s) = None
              THEN buffers'[s] = buffers[s]
              ELSE /\ \A h \in DOMAIN buffers[s] :
                         OneAppended(buffers[s][h], buffers'[s][h],
                                     CycleTemperature(s))
                   /\ trend_data'[TrendKey(s)] =
                         get_trend_data(buffers', s, CycleTemperature(s))]_vars

\* the same for the indoor sensor alone
C30_Indoor ==
    [][TrendsStep =>
          IF CycleTemperature("innen") = None
          THEN buffers'["innen"] = buffers["innen"]
          ELSE \A h \in DOMAIN buffers["innen"] :
                   OneAppended(buffers["innen"][h], buffers'["innen"][h],
                               CycleTemperature("innen"))]_vars

-----------------------------------------------------------------------------
(* C31: the alarm evaluation of a cycle never triggers 'condensation' and   *)
(* then 'sensor_failure': when the risk level is 'critical', neither the    *)
(* indoor nor the outdoor temperature is missing.                           *)
BothAlarmsDue ==
    /\ condensation_due(alarm, risk_data)
    /\ sensor_failure_due(trigger_alarm(alarm, "condensation", time),
                          processed)

C31_NeverBothAlarms ==
    [][AlarmEvaluation =>
          /\ ~BothAlarmsDue
          /\ risk_data.risk_level = "critical" => ~Missing(processed)]_vars

\* the alarm evaluation of a critical cycle has triggered 'condensation',
\* shown its screen and left it active
C31_Witness ==
    /\ pc = "timeout"
    /\ risk_data.risk_level = "critical"
    /\ ~Missing(processed)
    /\ alarm.is_alarm_active
    /\ alarm.alarm_type = "condensation"
    /\ alarm.alarm_start_time = time
    /\ display.screen = "alarm"

-----------------------------------------------------------------------------
(* C32: an active alarm becomes inactive only in the wake-up handler or at  *)
(* the end of the run; no step of the control cycle deactivates it, so an   *)
(* alarm whose cause has cleared stays active.  Its kind changes only when  *)
(* the alarm evaluation of a cycle with a missing temperature replaces      *)
(* 'condensation' by 'sensor_failure'.                                      *)
Deactivated == alarm.is_alarm_active /\ ~alarm'.is_alarm_active

KindReplaced ==
    /\ alarm.is_alarm_active /\ alarm'.is_alarm_active
    /\ alarm'.alarm_type # alarm.alarm_type

-----------------------------------------------------------------------------
(* C33: in every reachable state the buzzer has a non-zero duty only while  *)
(* an alarm is active, or while the pattern task is in the 500 ms sleep of  *)
(* an on-phase it began before an acknowledgement.                          *)
Sounding == alarm.buzzer_duty # 0

C33_BuzzerOnlyWhileActive ==
    (Sounding /\ ~alarm.is_alarm_active) => pattern.at = "sleep_on"

-----------------------------------------------------------------------------
(* C34: a step of the alarm pattern task taken while the active alarm is of *)
(* another kind than 'sensor_failure' leaves the buzzer's frequency and     *)
(* duty as they are: a condensation alarm triggered while the task sleeps   *)
(* in a pattern phase is still sounding after the task's next step.         *)
PatternStep == pattern' # pattern

OtherKindActive(a) == a.is_alarm_active /\ a.alarm_type # "sensor_failure"

C34_PatternKeepsOtherTone ==
    [][(PatternStep /\ OtherKindActive(alarm)) =>
          /\ alarm'.buzzer_duty = alarm.buzzer_duty
          /\ alarm'.buzzer_freq = alarm.buzzer_freq]_vars

-----------------------------------------------------------------------------
(* C35: with the default configuration the time since the last watchdog     *)
(* feed never exceeds watchdog_timeout_ms, through the cycle body, the      *)
(* sleep at the end of the cycle and the backoff after a fault.             *)
SinceFeedMs == (time - wdt_last_feed) * 1000

C35_WatchdogNeverExpires == SinceFeedMs <= params.watchdog_timeout_ms

-----------------------------------------------------------------------------
(* C36: system_status changes only from 'initializing' to 'running' when    *)
(* the control loop starts and to 'error' when a fault is handled; once it  *)
(* is 'error' it stays 'error', whatever the later cycles do.               *)
C36_StatusMonotone ==
    /\ [][system_status' # system_status =>
             \/ /\ pc = "start"
                /\ system_status = "initializing"
                /\ system_status' = "running"
             \/ /\ pc = "except"
                /\ system_status = "running"
                /\ system_status' = "error"]_vars
    /\ [][system_status = "error" => system_status' = "error"]_vars

\* the cycle after a fault ran to its end without a fault, and the status
\* is still 'error' in its sleep
C36_Witness ==
    /\ pc = "sleep"
    /\ cycles = 2
    /\ exc = "none"
    /\ wdt_last_feed = time
    /\ time = BootTime + BACKOFF_SEK
    /\ system_status = "error"

-----------------------------------------------------------------------------
(* C37: the stamped name a rotation renames the active file to is not the   *)
(* name of a file already on the card, and every record that was on the     *)
(* card before a log call is on the card after it.                          *)
Rotates == LogCall /\ LogDue(logger, time) /\ Oversized(logger, sd)

C37_RotationLosesNothing ==
    /\ [][Rotates => Stamped(time) \notin DOMAIN sd]_vars
    /\ [][LogCall => RowsOn(sd) \subseteq RowsOn(sd')]_vars

-----------------------------------------------------------------------------
(* C38: after any sequence of add_measurement and get_trend_data calls,     *)
(* each window of a known sensor holds the most recent min(n, capacity) of  *)
(* the n values fed for that sensor, so the 5-minute window is a suffix of  *)
(* the 15-minute window; get_trend_data changes no window.                  *)
LastN(seq, k) == SubSeq(seq, Len(seq) - k + 1, Len(seq))

IsSuffix(a, b) == Len(a) <= Len(b) /\ a = LastN(b, Len(a))

C38_WindowsHoldLatest ==
    /\ [](call.op # "none" =>
            \A s \in SensorNames :
                /\ \A h \in Horizons :
                      buffers[s][h].data =
                          LastN(call.fed[s],
                                Min(Len(call.fed[s]),
                                    Capacity(h, call.interval)))
                /\ IsSuffix(buffers[s]["5min"].data, buffers[s]["15min"].data))
    /\ [][call'.op = "get" => buffers' = buffers]_vars

\* four values fed for 'innen' at 300 s: the 5-minute window holds the
\* last one, the 15-minute window the last three
C38_Witness ==
    /\ call.op = "get"
    /\ call.interval = WindowInterval
    /\ call.fed["innen"] = <<2000, 2100, 2200, 2300>>
    /\ buffers["innen"]["5min"].data = <<2300>>
    /\ buffers["innen"]["15min"].data = <<2100, 2200, 2300>>

====
